---- MODULE Spec2Model ----
(***************************************************************************)
(* Commander Map clustering pipeline                                       *)
(* (src/apps/tcg/spellbook/commander_map).                                 *)
(*                                                                         *)
(* The domain services (ClusteringService, DimensionalityReductionService, *)
(* ClusterAnalysisService) are modelled as operators that compute what the *)
(* Python code computes; CommanderMapAggregate is modelled as a state      *)
(* machine over its fields.  The numeric libraries (UMAP, HDBSCAN, KDTree, *)
(* numpy's random generator) are primitives: their outcomes are chosen     *)
(* nondeterministically among the results their call contracts allow.      *)
(***************************************************************************)
EXTENDS Integers, Sequences, FiniteSets, TLC

VARIABLES
    pc,                 \* position of the driver: "ready", "done" or "agg"
    args,               \* the arguments of the current / last call
    ret,                \* the outcome of the last call: a value or a raise
    decklist_matrix,    \* CommanderMapAggregate.decklist_matrix
    commander_decks,    \* CommanderMapAggregate.commander_decks
    cdecks,             \* CommanderMapAggregate.cdecks
    coordinates,        \* CommanderMapAggregate.coordinates
    cluster_embedding,  \* CommanderMapAggregate.cluster_embedding
    cluster_labels,     \* CommanderMapAggregate.cluster_labels
    rng,                \* the state of numpy's global random generator
    reference,          \* the reference structures of the aggregates: the
                        \* objects and the fields that point at them
    jobs                \* the scrape jobs held by the job repository

vars == <<pc, args, ret, decklist_matrix, commander_decks, cdecks,
          coordinates, cluster_embedding, cluster_labels, rng, reference, jobs>>

aggVars == <<decklist_matrix, commander_decks, cdecks,
             coordinates, cluster_embedding, cluster_labels, reference, jobs>>

----------------------------------------------------------------------------
(* Python values *)

\* Python's None, and a present value
None == [some |-> FALSE]
Some(v) == [some |-> TRUE, v |-> v]

\* a call that returned v / a call that raised exception e
Ok(v) == [raised |-> "none", value |-> v]
Raise(e) == [raised |-> e]
NoCall == [raised |-> "nocall"]

Max(a, b) == IF a >= b THEN a ELSE b
Min(a, b) == IF a <= b THEN a ELSE b
Abs(a) == IF a >= 0 THEN a ELSE -a

RECURSIVE SumOver(_, _)
\* sum of f[x] over the finite set S
SumOver(f, S) ==
    IF S = {} THEN 0
    ELSE LET x == CHOOSE y \in S : TRUE IN f[x] + SumOver(f, S \ {x})

----------------------------------------------------------------------------
(* Bounds of the model *)

MaxPoints == 4       \* rows of a label array handed to assign_unclustered
MaxLabel == 1        \* cluster ids range over 0..MaxLabel
MaxCoord == 2        \* embedding positions range over 0..MaxCoord
MaxNeighbors == 3    \* n_neighbors ranges over 1..MaxNeighbors

MaxSmallDecks == 2   \* an aggregate has 0..MaxSmallDecks decks, or a number
                     \* of decks at either side of the small-dataset limit
MaxRows == 3        \* rows of a matrix handed to reduce on its own
MaxDims == 2        \* target dimensions handed to reduce on its own
MaxTraitDecks == 7  \* decks of a table handed to get_cluster_traits
MaxValues == 3      \* distinct values of a trait column
MaxCardDecks == 2   \* decks of a table handed to get_cluster_card_counts
MaxChunk == 1       \* chunksize ranges over 1..MaxChunk
MaxPrecomputed == 0 \* a precomputed counterfactual count ranges over 0..MaxPrecomputed
MaxAvgDecks == 2    \* decks of a table handed to calculate_average_decklists
MaxDeckSize == 2    \* cards of a decklist range over 0..MaxDeckSize
MaxScore == 1       \* mean card values range over 0..MaxScore
MaxExportDecks == 2 \* rows of a label array handed to jsonify_map
MaxPriorDraws == 1  \* draws made from the generator before the reduction stage
MaxDraws == 3       \* repair is applied again while fewer draws were made
MaxDateIdx == 1     \* deck date indices range over 0..MaxDateIdx
MaxCiIdx == 0       \* deck colour-identity indices range over 0..MaxCiIdx
MaxAnchorRows == 3  \* rows of an embedding whose repair anchors are computed
MaxAnchorCards == 1 \* cards of a deck of the lookup are among 1..MaxAnchorCards
MaxChunkDecks == 4  \* decks of a table whose counterfactual counts are chunked
MaxChunkSize == 3   \* chunksize ranges over 1..MaxChunkSize for those tables
MaxParentDecks == 3 \* the main map of the lookup specification has 1..MaxParentDecks decks
MaxJobs == 2        \* the job repository holds at most MaxJobs scrape jobs
MaxRetries == 1     \* a max_retries option ranges over 0..MaxRetries
MaxFreeRows == 1     \* the rows a library primitive may single out: one of
                     \* the first MaxFreeRows rows against all other rows

\* the sentinel label of "not yet clustered" points
Sentinel == -1

\* cluster() skips density clustering up to this number of decks
SmallDatasetLimit == 10

Labels == Sentinel..MaxLabel

\* the aggregate fields while a service is exercised on its own
AggIdle ==
    /\ decklist_matrix = None
    /\ commander_decks = None
    /\ cdecks = None
    /\ coordinates = None
    /\ cluster_embedding = None
    /\ cluster_labels = None
    /\ reference = None
    /\ jobs = None

----------------------------------------------------------------------------
(* numpy's global random generator *)

\* The generator state: seeded is TRUE when the state is the one
\* np.random.seed(0) set, advanced by `draws` calls that drew from it since;
\* FALSE when it is whatever earlier operations of the process left.
Rng(seeded, draws) == [seeded |-> seeded, draws |-> draws]

\* np.random.seed(0)
seed_skipped(g) == g
seed(g) == Rng(TRUE, 0)

\* a call that draws from the generator
Draw(g) == [g EXCEPT !.draws = @ + 1]

----------------------------------------------------------------------------
(* Embeddings *)

\* An embedding (numpy array, rows x dims) is represented by
\*   rows, dims : its shape
\*   nan        : the rows that hold an undefined (NaN) coordinate
\*   unit       : TRUE when all its coordinates were drawn from [0, 1)
\*                by np.random.uniform, FALSE for coordinates placed by UMAP
\*   pos        : one position per row where the geometry matters (the
\*                neighbour search), << >> where it is not tracked
Embedding(rows, dims, nan, unit, pos) ==
    [rows |-> rows, dims |-> dims, nan |-> nan, unit |-> unit, pos |-> pos]

\* np.random.uniform(size=(rows, dims)): every coordinate in [0, 1)
RandomUniform(rows, dims) == Embedding(rows, dims, {}, TRUE, << >>)

\* the ways a library primitive can split the rows 1..rows in two: no row,
\* every row, one row, or every row but one
RowSubsets(rows) ==
    {{}, 1..rows} \cup
    UNION { {{h}, (1..rows) \ {h}} : h \in 1..Min(rows, MaxFreeRows) }

----------------------------------------------------------------------------
(* ClusteringService.cluster *)

\* hdbscan.HDBSCAN(...).fit_predict(embedding): one label per row of the
\* embedding, -1 for noise; raises on an embedding that is None or holds
\* undefined entries.  The embedding is None or Some(e).
hdbscan_cluster(embedding) ==
    IF embedding = None THEN {Raise("ValueError")}
    ELSE IF embedding.v.nan # {} THEN {Raise("ValueError")}
    ELSE { [raised |-> "none", via |-> "hdbscan",
            value |-> [i \in 1..embedding.v.rows |-> IF i = h THEN a ELSE b]] :
              h \in 0..Min(MaxFreeRows, embedding.v.rows),
              a \in Labels, b \in Labels }

\* the trivial-size test of line 49
small_dataset_lt(n_decks) == n_decks < SmallDatasetLimit
small_dataset(n_decks) == n_decks <= SmallDatasetLimit

\* ClusteringService.cluster(embedding, method, n_decks)
cluster_any_method(embedding, method, n_decks) ==
    IF small_dataset(n_decks)
    THEN {[raised |-> "none", via |-> "shortcut",
           value |-> [i \in 1..n_decks |-> 0]]}
    ELSE hdbscan_cluster(embedding)
cluster(embedding, method, n_decks) ==
    IF method # "HDBSCAN" THEN {Raise("NotImplementedError")}
    ELSE IF small_dataset(n_decks)
         THEN {[raised |-> "none", via |-> "shortcut",
                value |-> [i \in 1..n_decks |-> 0]]}
         ELSE hdbscan_cluster(embedding)

----------------------------------------------------------------------------
(* ClusteringService.assign_unclustered *)

\* scipy KDTree.query(point, k) over the clustered rows: the possible sets of
\* the k nearest clustered rows of row u (rows at equal distance come in an
\* order the tree decides).  For an embedding whose positions the model does
\* not track, any k clustered rows can be the nearest ones.
KDTreeQuery(embedding, clustered, u, k) ==
    { S \in SUBSET clustered :
        /\ Cardinality(S) = k
        /\ \/ embedding.pos = << >>
           \/ \A a \in S : \A b \in clustered \ S :
                 Abs(embedding.pos[u] - embedding.pos[a])
                    <= Abs(embedding.pos[u] - embedding.pos[b]) }

\* np.bincount(row).argmax(): the lowest label with the highest count
BincountArgmin(labels, S) ==
    LET cnt(l) == Cardinality({i \in S : labels[i] = l})
    IN CHOOSE l \in 0..MaxLabel :
          /\ \A m \in 0..MaxLabel : cnt(m) >= cnt(l)
          /\ \A m \in 0..MaxLabel : (m < l) => cnt(m) > cnt(l)
BincountArgmax(labels, S) ==
    LET cnt(l) == Cardinality({i \in S : labels[i] = l})
    IN CHOOSE l \in 0..MaxLabel :
          /\ \A m \in 0..MaxLabel : cnt(m) <= cnt(l)
          /\ \A m \in 0..MaxLabel : (m < l) => cnt(m) < cnt(l)

\* the number of neighbours queried (lines 122-125)
reduced_neighbors(n_clustered, n_neighbors) ==
    IF n_clustered < n_neighbors + 1 THEN n_clustered - 1 ELSE n_neighbors

\* The outcomes of assign_unclustered(cluster_labels, cluster_embedding,
\* n_neighbors):
\*   KDTree refuses data and query points that are not finite;
\*   k = 0: query returns rows with no neighbour and argmax of the empty
\*          bincount raises ValueError;
\*   k = 1: query squeezes the neighbour axis, the rows iterated at line 135
\*          are scalars and np.bincount raises ValueError.
assign_unclustered(labels, embedding, n_neighbors) ==
    LET n == Len(labels)
        unclustered == {i \in 1..n : labels[i] = Sentinel}
        clustered == {i \in 1..n : labels[i] # Sentinel}
        k == reduced_neighbors(Cardinality(clustered), n_neighbors)
        votes(u) == {BincountArgmax(labels, S) : S \in KDTreeQuery(embedding, clustered, u, k)}
    IN IF Cardinality(unclustered) = 0 THEN {Ok(labels)}
       ELSE IF Cardinality(unclustered) = n THEN {Ok([i \in 1..n |-> 0])}
       ELSE IF embedding.nan # {} THEN {Raise("ValueError")}
       ELSE IF k < 2 THEN {Raise("ValueError")}
       ELSE { Ok([i \in 1..n |-> IF i \in unclustered THEN v[i] ELSE labels[i]]) :
                v \in {w \in [unclustered -> 0..MaxLabel] :
                          \A u \in unclustered : w[u] \in votes(u)} }

----------------------------------------------------------------------------
(* Specification: assign_unclustered applied to every bounded input *)

InitReassign ==
    /\ pc = "ready"
    /\ args \in
        UNION { [fn : {"assign_unclustered"},
                 cluster_labels : [1..n -> Labels],
                 cluster_embedding :
                     {Embedding(n, 1, {}, FALSE, p) : p \in [1..n -> 0..MaxCoord]},
                 n_neighbors : 1..MaxNeighbors] : n \in 0..MaxPoints }
    /\ ret = NoCall
    /\ AggIdle
    /\ rng = Rng(FALSE, 0)

CallAssignUnclustered ==
    /\ pc = "ready"
    /\ args.fn = "assign_unclustered"
    /\ \E r \in assign_unclustered(
                   args.cluster_labels,
                   args.cluster_embedding,
                   args.n_neighbors) :
          ret' = r
    /\ pc' = "done"
    /\ UNCHANGED <<args, aggVars, rng>>

NextReassign == CallAssignUnclustered

SpecReassign == InitReassign /\ [][NextReassign]_vars

----------------------------------------------------------------------------
(* C1 *)

\* C1: for every label array and n_neighbors >= 1, assign_unclustered returns
\* a label array of the same length in which no entry is the sentinel -1.
C1_NoSentinelAfterReassign ==
    (pc = "done" /\ args.fn = "assign_unclustered") =>
        /\ ret.raised = "none"
        /\ Len(ret.value) = Len(args.cluster_labels)
        /\ \A i \in 1..Len(ret.value) : ret.value[i] # Sentinel

----------------------------------------------------------------------------
(* C20 *)

\* the rows of the label array handed to assign_unclustered
SentinelRows == {i \in 1..Len(args.cluster_labels) : args.cluster_labels[i] = Sentinel}
ClusteredRows == {i \in 1..Len(args.cluster_labels) : args.cluster_labels[i] # Sentinel}

\* the neighbour count the claim states
StatedNeighbors ==
    IF Cardinality(ClusteredRows) > args.n_neighbors THEN args.n_neighbors
    ELSE Cardinality(ClusteredRows) - 1

\* C20: when some but not all rows carry the sentinel, assign_unclustered
\* returns, and each sentinel row has the most frequent label among its k
\* nearest clustered rows, the lowest such label on a tie, with k the stated
\* neighbour count.
C20_MajorityOfNearest ==
    (pc = "done" /\ args.fn = "assign_unclustered"
        /\ SentinelRows # {} /\ ClusteredRows # {}) =>
        /\ ret.raised = "none"
        /\ \A u \in SentinelRows :
              \E S \in KDTreeQuery(args.cluster_embedding, ClusteredRows, u,
                                   StatedNeighbors) :
                 ret.value[u] = BincountArgmax(args.cluster_labels, S)

----------------------------------------------------------------------------
(* Specification: assign_unclustered applied to every bounded label array,
   on an embedding whose positions are not tracked: any k clustered rows can
   be the nearest ones of a row *)

InitReassignAnywhere ==
    /\ pc = "ready"
    /\ \E n \in 0..MaxPoints :
          args \in [fn : {"assign_unclustered"},
                    cluster_labels : [1..n -> Labels],
                    cluster_embedding : {Embedding(n, 1, {}, FALSE, << >>)},
                    n_neighbors : 1..MaxNeighbors]
    /\ ret = NoCall
    /\ AggIdle
    /\ rng = Rng(FALSE, 0)

SpecReassignAnywhere == InitReassignAnywhere /\ [][NextReassign]_vars

----------------------------------------------------------------------------
(* C26 *)

\* C26: when assign_unclustered returns, every row that was clustered keeps
\* its label, and, when some row was clustered, every label given to a
\* sentinel row is the label of a clustered row.
C26_ClusteredLabelsKept ==
    (pc = "done" /\ args.fn = "assign_unclustered" /\ ret.raised = "none") =>
        /\ \A i \in ClusteredRows : ret.value[i] = args.cluster_labels[i]
        /\ ClusteredRows # {} =>
              \A u \in SentinelRows :
                 \E i \in ClusteredRows : ret.value[u] = args.cluster_labels[i]

\* three rows clustered under label 1 and a sentinel row that joins them
C26_Witness ==
    /\ pc = "done" /\ args.fn = "assign_unclustered" /\ ret.raised = "none"
    /\ Cardinality(SentinelRows) = 1
    /\ Cardinality(ClusteredRows) = 3
    /\ \A i \in ClusteredRows : args.cluster_labels[i] = 1
    /\ \A u \in SentinelRows : ret.value[u] = 1

----------------------------------------------------------------------------
(* DimensionalityReductionService *)

\* the data handed to the reducer: None, or a matrix of so many rows that is
\* finite or holds undefined entries
Matrix(rows, finite) == [some |-> TRUE, v |-> rows, finite |-> finite]

\* umap.UMAP(n_components=n_dims, ...).fit_transform(data): an embedding with
\* one row per row of the data, whose disconnected rows are NaN, or a raise
\* (always on data that is no matrix or is not finite)
umap_fit_transform(data, n_dims) ==
    IF data = None \/ ~data.finite THEN {Raise("ValueError")}
    ELSE {Raise("Exception")} \cup
         { Ok(Embedding(data.v, n_dims, nan, FALSE, << >>)) :
              nan \in RowSubsets(data.v) }

\* _umap_reduce (lines 80-87), fit being the outcome of fit_transform: on a
\* raise the handler takes the row count from data.shape or len(data)
umap_reduce_propagates(data, n_dims, fit) == fit
umap_reduce(data, n_dims, fit) ==
    IF fit.raised = "none" THEN fit
    ELSE IF data = None THEN Raise("TypeError")
    ELSE Ok(RandomUniform(data.v, n_dims))

\* DimensionalityReductionService.reduce
reduce(data, method, n_dims, fit) ==
    IF method # "UMAP" THEN Raise("NotImplementedError")
    ELSE umap_reduce(data, n_dims, fit)

\* the generator after reduce: _umap_reduce seeds it at line 66, the reducer
\* draws from its own RandomState(0), and the fallback of line 85 draws from
\* the global generator
reduce_rng(g, data, method, fit) ==
    IF method # "UMAP" THEN g
    ELSE IF fit.raised = "none" \/ data = None THEN seed(g)
    ELSE Draw(seed(g))

----------------------------------------------------------------------------
(* ClusteringService.handle_disconnected_points *)

\* numpy broadcasting of a (k, dims) array with the (n_dims,) noise vector
Broadcasts(dims, n_dims) == dims = n_dims \/ n_dims = 1 \/ dims = 1

\* The rows still undefined after line 201.  A disconnected row is anchored
\* to a connected row (np.random.choice(connected_idx)) or, when the deck
\* lookup holds decks, to the most similar deck of the same commander, which
\* is any other row and may itself be disconnected.  Commanders and card
\* lists are not tracked here.
RepairLeftovers(embedding, cd) ==
    { S \in RowSubsets(embedding.rows) :
        /\ S \subseteq embedding.nan
        /\ S # {} => (cd # None /\ cd.v > 0 /\ Cardinality(embedding.nan) >= 2) }

\* whether handle_disconnected_points draws from the generator: not when it
\* returns at line 163, else at line 170 or at lines 191-200
repair_draws_always(embedding) == TRUE
repair_draws(embedding) == embedding.nan # {}

\* the generator after handle_disconnected_points
repair_rng(g, embedding) == IF repair_draws(embedding) THEN Draw(g) ELSE g

\* handle_disconnected_points(embedding, cdecks, n_dims)
handle_disconnected_points(embedding, cd, n_dims) ==
    IF embedding.nan = {} THEN {Ok(embedding)}
    ELSE IF embedding.nan = 1..embedding.rows
         THEN {Ok(RandomUniform(embedding.rows, embedding.dims))}
    ELSE IF ~Broadcasts(embedding.dims, n_dims) THEN {Raise("ValueError")}
    ELSE { Ok(Embedding(embedding.rows, embedding.dims, left, FALSE, << >>)) :
              left \in RepairLeftovers(embedding, cd) }

----------------------------------------------------------------------------
(* CommanderMapAggregate *)

\* the deck-metadata table: its row count and the columns the pipeline adds
DeckTable(rows, xy, clusterID) ==
    [some |-> TRUE, rows |-> rows, xy |-> xy, clusterID |-> clusterID]

\* a column every entry of which is None
NoneColumn == [some |-> TRUE, nones |-> TRUE]

\* _validate_consistency (lines 84-94) on matrix rows m, table rows d and
\* entity count c, each None when the field is not given
validate_consistency_no_cdecks(m, d, c) ==
    IF m # None /\ d # None /\ m.v # d.v THEN Raise("ValueError") ELSE Ok(None)
validate_consistency(m, d, c) ==
    IF m # None /\ d # None
    THEN IF m.v # d.v THEN Raise("ValueError")
         ELSE IF c # None /\ m.v # c.v THEN Raise("ValueError")
         ELSE Ok(None)
    ELSE Ok(None)

\* the outcome of an aggregate method: what it raised or returned, and the
\* outcome of the domain-service call it made (NoCall when it made none)
Outcome(raised, value, service) ==
    [raised |-> raised, value |-> value, service |-> service]

DeckCounts == (0..MaxSmallDecks) \cup {SmallDatasetLimit, SmallDatasetLimit + 1}
OptCounts == {None} \cup {Some(n) : n \in DeckCounts}

\* the n_dims arguments: 0 stands for an omitted n_dims (None)
NDimsArgs == {0, 2}
DefaultCoordinateDims == 2
DefaultClusterDims == 6

\* the n_dims the aggregate passes to reduce (line 141), 0 standing for an
\* n_dims that is omitted: n_dims or (2 if coordinates else 6)
reducer_n_dims(n_dims, as_coordinates) ==
    IF n_dims # 0 THEN n_dims
    ELSE IF as_coordinates THEN DefaultCoordinateDims ELSE DefaultClusterDims

\* the n_dims the aggregate passes to the repair (line 145): n_dims or 2
repair_n_dims(n_dims) == IF n_dims # 0 THEN n_dims ELSE DefaultCoordinateDims

\* CommanderMapAggregate(decklist_matrix=m, commander_decks=d, cdecks=c)
Construct(m, d, c) ==
    /\ pc = "new"
    /\ UNCHANGED rng
    /\ args' = [fn |-> "construct", m |-> m, d |-> d, c |-> c]
    /\ LET v == validate_consistency(m, d, c)
       IN IF v.raised # "none"
          THEN /\ pc' = "failed"
               /\ ret' = Outcome(v.raised, None, NoCall)
               /\ UNCHANGED aggVars
          ELSE /\ pc' = "agg"
               /\ ret' = Outcome("none", None, NoCall)
               /\ decklist_matrix' = m
               /\ commander_decks' = IF d = None THEN None
                                     ELSE DeckTable(d.v, None, None)
               /\ cdecks' = c
               /\ UNCHANGED <<coordinates, cluster_embedding, cluster_labels,
                              reference, jobs>>

\* the writes of lines 147-151 once the embedding emb is repaired
StoreEmbedding(emb, as_coordinates) ==
    IF as_coordinates
    THEN /\ coordinates' = Some(emb)
         /\ IF commander_decks = None
            THEN /\ ret' = Outcome("TypeError", None, Ok(emb))
                 /\ UNCHANGED commander_decks
            ELSE IF emb.dims # 2 \/ emb.rows # commander_decks.rows
            THEN /\ ret' = Outcome("ValueError", None, Ok(emb))
                 /\ UNCHANGED commander_decks
            ELSE /\ ret' = Outcome("none", emb, Ok(emb))
                 /\ commander_decks' = [commander_decks EXCEPT !.xy = Some(emb)]
         /\ UNCHANGED cluster_embedding
    ELSE /\ cluster_embedding' = Some(emb)
         /\ ret' = Outcome("none", emb, Ok(emb))
         /\ UNCHANGED <<coordinates, commander_decks>>

\* reduce_dimensionality(method, n_dims, coordinates, on_embedding)
ReduceDimensionality(method, n_dims, as_coordinates, on_embedding) ==
    /\ pc = "agg"
    /\ LET data == IF on_embedding
                   THEN IF cluster_embedding = None THEN None
                        ELSE Matrix(cluster_embedding.v.rows,
                                    cluster_embedding.v.nan = {})
                   ELSE IF decklist_matrix = None THEN None
                        ELSE Matrix(decklist_matrix.v, TRUE)
           requested == reducer_n_dims(n_dims, as_coordinates)
           repair_dims == repair_n_dims(n_dims)
       IN \E fit \in (IF method = "UMAP" THEN umap_fit_transform(data, requested)
                      ELSE {NoCall}) :
            LET reduced == reduce(data, method, requested, fit)
            IN /\ args' = [fn |-> "reduce_dimensionality", method |-> method]
               /\ rng' = IF reduced.raised # "none"
                         THEN reduce_rng(rng, data, method, fit)
                         ELSE repair_rng(reduce_rng(rng, data, method, fit),
                                         reduced.value)
               /\ IF reduced.raised # "none"
                  THEN /\ ret' = Outcome(reduced.raised, None, Raise(reduced.raised))
                       /\ UNCHANGED <<coordinates, cluster_embedding, commander_decks>>
                  ELSE \E repaired \in handle_disconnected_points(
                                           reduced.value, cdecks, repair_dims) :
                         IF repaired.raised # "none"
                         THEN /\ ret' = Outcome(repaired.raised, None, Raise(repaired.raised))
                              /\ UNCHANGED <<coordinates, cluster_embedding,
                                             commander_decks>>
                         ELSE StoreEmbedding(repaired.value, as_coordinates)
    /\ UNCHANGED <<pc, decklist_matrix, cdecks, cluster_labels, reference, jobs>>

\* the write of the clusterID column (lines 211, 233) after the service call
\* returned labels
SetClusterID(labels, service) ==
    IF Len(labels) # commander_decks.rows
    THEN /\ ret' = Outcome("ValueError", None, service)
         /\ UNCHANGED commander_decks
    ELSE /\ ret' = Outcome("none", labels, service)
         /\ commander_decks' = [commander_decks EXCEPT !.clusterID = Some(labels)]

\* the guard of line 195
embedding_missing_never(embedding) == FALSE
embedding_missing(embedding) == embedding = None

\* the n_decks argument of line 206, len(self.commander_decks)
n_decks_omitted(table) == 0
n_decks_of(table) == table.rows

\* cluster_decks(method)
ClusterDecks(method) ==
    /\ pc = "agg"
    /\ args' = [fn |-> "cluster_decks", method |-> method]
    \* cluster() seeds the generator at line 46 once the method is accepted
    /\ rng' = IF ~embedding_missing(cluster_embedding) /\ commander_decks # None
                 /\ method = "HDBSCAN"
              THEN seed(rng) ELSE rng
    /\ IF embedding_missing(cluster_embedding)
       THEN /\ ret' = Outcome("ValueError", None, NoCall)
            /\ UNCHANGED <<cluster_labels, commander_decks>>
       ELSE IF commander_decks = None
       THEN \* len(self.commander_decks) fails while the arguments are built
            /\ ret' = Outcome("TypeError", None, NoCall)
            /\ UNCHANGED <<cluster_labels, commander_decks>>
       ELSE \E r \in cluster(cluster_embedding, method,
                              n_decks_of(commander_decks)) :
              IF r.raised # "none"
              THEN /\ ret' = Outcome(r.raised, None, r)
                   /\ UNCHANGED <<cluster_labels, commander_decks>>
              ELSE /\ cluster_labels' = Some(r.value)
                   /\ SetClusterID(r.value, r)
    /\ UNCHANGED <<pc, decklist_matrix, cdecks, coordinates, cluster_embedding,
                   reference, jobs>>

\* assign_unclustered(n_neighbors) of the aggregate
AssignUnclustered(n_neighbors) ==
    /\ pc = "agg"
    /\ args' = [fn |-> "assign_unclustered", n_neighbors |-> n_neighbors]
    /\ UNCHANGED rng
    /\ IF cluster_labels = None
       THEN \* np.sum(None == -1) is 0: the service returns None
            /\ UNCHANGED cluster_labels
            /\ IF commander_decks = None
               THEN /\ ret' = Outcome("TypeError", None, Ok(None))
                    /\ UNCHANGED commander_decks
               ELSE /\ ret' = Outcome("none", None, Ok(None))
                    /\ commander_decks' =
                          [commander_decks EXCEPT !.clusterID = NoneColumn]
       ELSE \E r \in assign_unclustered(cluster_labels.v, cluster_embedding.v,
                                         n_neighbors) :
              IF r.raised # "none"
              THEN /\ ret' = Outcome(r.raised, None, r)
                   /\ UNCHANGED <<cluster_labels, commander_decks>>
              ELSE /\ cluster_labels' = Some(r.value)
                   /\ SetClusterID(r.value, r)
    /\ UNCHANGED <<pc, decklist_matrix, cdecks, coordinates, cluster_embedding,
                   reference, jobs>>

InitAgg ==
    /\ pc = "new"
    /\ args = [fn |-> "none"]
    /\ ret = NoCall
    /\ AggIdle
    /\ rng = Rng(FALSE, 0)

NextAgg ==
    \/ \E m \in OptCounts, d \in OptCounts, c \in OptCounts : Construct(m, d, c)
    \/ \E method \in {"UMAP", "PCA"}, n_dims \in NDimsArgs,
          as_coordinates \in BOOLEAN, on_embedding \in BOOLEAN :
          ReduceDimensionality(method, n_dims, as_coordinates, on_embedding)
    \/ \E method \in {"HDBSCAN", "KMeans"} : ClusterDecks(method)
    \/ \E n_neighbors \in 1..MaxNeighbors : AssignUnclustered(n_neighbors)

SpecAgg == InitAgg /\ [][NextAgg]_vars

----------------------------------------------------------------------------
(* C2 *)

\* C2: constructing the aggregate from a matrix, a metadata table and an
\* entity lookup succeeds exactly when the three counts are equal, a mismatch
\* raises the consistency error (ValueError) and builds nothing, and no
\* aggregate that holds all three has differing counts.
C2_ConstructionConsistent ==
    /\ (args.fn = "construct" /\ args.m # None /\ args.d # None /\ args.c # None) =>
          /\ (ret.raised = "none") <=> (args.m.v = args.d.v /\ args.d.v = args.c.v)
          /\ (ret.raised = "none") => pc = "agg"
          /\ (ret.raised # "none") =>
                (ret.raised = "ValueError" /\ pc = "failed" /\ AggIdle)
    /\ (pc = "agg" /\ decklist_matrix # None /\ commander_decks # None
          /\ cdecks # None) =>
          /\ decklist_matrix.v = commander_decks.rows
          /\ commander_decks.rows = cdecks.v

\* a construction refused because only the entity count differs
C2_Witness ==
    /\ args.fn = "construct" /\ pc = "failed"
    /\ args.m # None /\ args.d # None /\ args.c # None
    /\ args.m.v = args.d.v /\ args.c.v # args.m.v
    /\ ret.raised = "ValueError"

----------------------------------------------------------------------------
(* C3 *)

\* C3: in any sequence of operations, cluster_decks called while no cluster
\* embedding exists raises the usage error (ValueError) before any service
\* is called and leaves cluster_labels and the clusterID column unchanged,
\* whether or not the display coordinates exist.
C3_ClusterBeforeEmbeddingFails ==
    [][(args'.fn = "cluster_decks" /\ cluster_embedding = None) =>
          /\ ret'.raised = "ValueError"
          /\ ret'.service = NoCall
          /\ UNCHANGED <<cluster_labels, commander_decks, cluster_embedding>>]_vars

\* cluster_decks refused on an aggregate that has display coordinates and a
\* deck table but no cluster embedding
C3_Witness ==
    /\ args.fn = "cluster_decks" /\ args.method = "HDBSCAN"
    /\ cluster_embedding = None
    /\ coordinates # None /\ commander_decks # None /\ commander_decks.xy # None
    /\ ret.raised = "ValueError"
    /\ cluster_labels = None /\ commander_decks.clusterID = None

----------------------------------------------------------------------------
(* C4 *)

\* C4: when the cluster embedding has 10 rows or fewer, clustering skips the
\* density clustering and returns a label array whose every entry is 0.
C4_SmallDatasetAllZero ==
    (/\ args.fn = "cluster_decks" /\ args.method = "HDBSCAN"
     /\ cluster_embedding # None /\ commander_decks # None
     /\ cluster_embedding.v.rows <= SmallDatasetLimit) =>
        /\ ret.raised = "none"
        /\ ret.service.raised = "none"
        /\ ret.service.via = "shortcut"
        /\ \A i \in 1..Len(ret.value) : ret.value[i] = 0
        /\ cluster_labels = Some(ret.value)

\* the shortcut taken at exactly 10 rows
C4_Witness ==
    /\ args.fn = "cluster_decks"
    /\ cluster_embedding # None /\ cluster_embedding.v.rows = SmallDatasetLimit
    /\ ret.raised = "none" /\ ret.service.via = "shortcut"
    /\ Len(ret.value) = SmallDatasetLimit

----------------------------------------------------------------------------
(* C5 *)

----------------------------------------------------------------------------
(* C7 *)

\* a step of reduce_dimensionality or cluster_decks with a method name the
\* services do not implement
UnsupportedReduce == args'.fn = "reduce_dimensionality" /\ args'.method # "UMAP"
UnsupportedCluster == args'.fn = "cluster_decks" /\ args'.method # "HDBSCAN"

\* C7 as stated: an unsupported reduction or clustering method raises the
\* not-implemented error in every aggregate state and changes nothing.
C7_UnsupportedAlwaysNotImplemented ==
    [][(UnsupportedReduce \/ UnsupportedCluster) =>
          (ret'.raised = "NotImplementedError" /\ UNCHANGED aggVars)]_vars

\* C7 amended: an unsupported reduction method always raises the
\* not-implemented error; an unsupported clustering method raises it when a
\* cluster embedding and a deck table exist, the usage error (ValueError) when
\* no cluster embedding exists, and TypeError when the embedding exists but
\* the deck table is None; no algorithm runs and the aggregate is unchanged.
C7_UnsupportedNeverFallsBack ==
    [][/\ UnsupportedReduce =>
            (ret'.raised = "NotImplementedError" /\ UNCHANGED aggVars)
       /\ UnsupportedCluster =>
            /\ UNCHANGED aggVars
            /\ ret'.raised =
                  IF cluster_embedding = None THEN "ValueError"
                  ELSE IF commander_decks = None THEN "TypeError"
                  ELSE "NotImplementedError"
            /\ ret'.service.raised \in {"nocall", "NotImplementedError"}]_vars

\* an unsupported clustering method refused by the service on an aggregate
\* that holds an embedding and labels
C7_Witness ==
    /\ args.fn = "cluster_decks" /\ args.method # "HDBSCAN"
    /\ ret.raised = "NotImplementedError"
    /\ cluster_embedding # None /\ cluster_labels # None

----------------------------------------------------------------------------
(* Specification: the reduction stage, reduce followed by the repair of its
   result (reduce_dimensionality, lines 129-145), on every bounded input *)

\* the inputs of the stage; fit is what the reducer does on the data
InitReduce ==
    /\ pc = "ready"
    /\ args \in
        UNION { { [fn |-> "reduce", data |-> Matrix(rows, finite),
                   method |-> method, n_dims |-> n_dims, fit |-> fit,
                   cdecks |-> cd, repair_dims |-> repair_dims] :
                     fit \in (IF method = "UMAP"
                              THEN umap_fit_transform(Matrix(rows, finite), n_dims)
                              ELSE {NoCall}),
                     cd \in {None, Some(0), Some(rows)},
                     repair_dims \in 1..MaxDims } :
                rows \in 0..MaxRows, finite \in BOOLEAN,
                method \in {"UMAP", "PCA"}, n_dims \in 1..MaxDims }
    /\ ret = NoCall
    /\ AggIdle
    \* the generator as earlier operations of the process left it
    /\ rng \in {Rng(seeded, draws) :
                    seeded \in BOOLEAN, draws \in 0..MaxPriorDraws}

CallReduce ==
    /\ pc = "ready"
    /\ args.fn = "reduce"
    /\ ret' = reduce(args.data, args.method, args.n_dims, args.fit)
    /\ rng' = reduce_rng(rng, args.data, args.method, args.fit)
    /\ pc' = "reduced"
    /\ UNCHANGED <<args, aggVars>>

CallHandleDisconnected ==
    /\ pc = "reduced"
    /\ ret.raised = "none"
    /\ \E r \in handle_disconnected_points(ret.value, args.cdecks,
                                           args.repair_dims) :
          ret' = r
    /\ rng' = repair_rng(rng, ret.value)
    /\ pc' = "repaired"
    /\ UNCHANGED <<args, aggVars>>

\* handle_disconnected_points applied again to the embedding it returned
CallHandleDisconnectedAgain ==
    /\ pc \in {"repaired", "repaired again"}
    /\ ret.raised = "none"
    /\ rng.draws < MaxDraws
    /\ \E r \in handle_disconnected_points(ret.value, args.cdecks,
                                           args.repair_dims) :
          ret' = r
    /\ rng' = repair_rng(rng, ret.value)
    /\ pc' = "repaired again"
    /\ UNCHANGED <<args, aggVars>>

NextReduce ==
    CallReduce \/ CallHandleDisconnected \/ CallHandleDisconnectedAgain

SpecReduce == InitReduce /\ [][NextReduce]_vars

----------------------------------------------------------------------------
(* C6 *)

\* C6: when the reducer raises on the data, reduce raises nothing and returns
\* an embedding with one row per row of the data and n_dims columns, every
\* coordinate drawn from [0, 1); the repair stage then runs and returns that
\* embedding.
C6_ReducerFailureRecovered ==
    (args.fn = "reduce" /\ args.method = "UMAP" /\ args.fit.raised # "none"
       /\ pc \in {"reduced", "repaired"}) =>
        /\ ret.raised = "none"
        /\ ret.value.rows = args.data.v
        /\ ret.value.dims = args.n_dims
        /\ ret.value.unit
        /\ ret.value.nan = {}

\* the reducer raised on a finite matrix of several rows and the repair stage
\* was reached with the random embedding
C6_Witness ==
    /\ pc = "repaired"
    /\ args.fn = "reduce" /\ args.method = "UMAP"
    /\ args.data.finite /\ args.data.v >= 2
    /\ args.fit.raised = "Exception"
    /\ ret = Ok(RandomUniform(args.data.v, args.n_dims))

----------------------------------------------------------------------------
(* C13 *)

\* C13: repair applied to an embedding without undefined coordinate returns
\* that embedding, the first time and every further time, and leaves the
\* random generator as it was.
C13_RepairOfConnectedUnchanged ==
    [][(/\ pc \in {"reduced", "repaired", "repaired again"}
        /\ pc' \in {"repaired", "repaired again"}
        /\ ret.raised = "none"
        /\ ret.value.nan = {}) =>
          (ret' = Ok(ret.value) /\ rng' = rng)]_vars

\* an embedding the reducer placed completely, repaired twice, with no draw
\* made since the seed was set
C13_Witness ==
    /\ pc = "repaired again"
    /\ args.fit.raised = "none" /\ args.fit.value.nan = {}
    /\ args.data.v >= 2
    /\ ret = args.fit
    /\ rng = Rng(TRUE, 0)

----------------------------------------------------------------------------
(* C14 *)

\* C14: after repair returns, no row of the embedding holds an undefined
\* coordinate, for every embedding and every deck lookup.
C14_NoUndefinedAfterRepair ==
    (pc \in {"repaired", "repaired again"} /\ ret.raised = "none") =>
        ret.value.nan = {}

----------------------------------------------------------------------------
(* C15 *)

\* the calls of the stage that draw from the global generator: the fallback
\* embedding, and then the repair of an embedding that holds undefined rows
StageDraws ==
    IF args.fit.raised # "none" THEN 1
    ELSE IF pc = "repaired" /\ args.fit.value.nan # {} THEN 1
    ELSE 0

\* C15: after the embedding stage, and after the repair that follows it, the
\* generator is in the state fixed by seed 0 and the draws of the stage
\* itself, whatever state earlier operations left it in: every draw of the
\* fallback embedding and of repair was made from a state the seed and the
\* input determine.
C15_DrawsGovernedBySeed ==
    (args.fn = "reduce" /\ args.method = "UMAP"
       /\ pc \in {"reduced", "repaired"}) =>
        rng = Rng(TRUE, StageDraws)

\* a repair that drew anchors and noise for some disconnected rows, from the
\* generator seeded by the stage
C15_Witness ==
    /\ pc = "repaired" /\ args.fn = "reduce" /\ args.method = "UMAP"
    /\ args.fit.raised = "none"
    /\ args.fit.value.nan # {} /\ args.fit.value.nan # 1..args.data.v
    /\ ret.raised = "none"
    /\ rng = Rng(TRUE, 1)

----------------------------------------------------------------------------
(* ClusterAnalysisService.get_cluster_traits *)

\* Series.round(0) of a / d for d > 0: the nearest integer, halves to even
RoundDown(a, d) == a \div d
RoundHalfEven(a, d) ==
    LET q == a \div d
        r == a - q * d
    IN IF 2 * r < d THEN q
       ELSE IF 2 * r > d THEN q + 1
       ELSE IF q % 2 = 0 THEN q ELSE q + 1

\* A deck table enters through the group sizes of line 61: size[j] is the
\* number of decks of cluster CellCluster(j) whose trait is CellValue(j).
TraitCells == (MaxLabel + 1) * MaxValues
CellCluster(j) == (j - 1) \div MaxValues
CellValue(j) == ((j - 1) % MaxValues) + 1

RECURSIVE CountPrefixes(_, _)
\* the sequences t of k counts whose sum is at most n, each with the number
\* of decks it leaves unused
CountPrefixes(k, n) ==
    IF k = 0 THEN {[t |-> << >>, left |-> n]}
    ELSE LET shorter == CountPrefixes(k - 1, n)
         IN {[t |-> Append(p[1].t, p[2]), left |-> p[1].left - p[2]] :
                p \in {q \in shorter \X (0..n) : q[2] <= q[1].left}}

\* the sequences of k counts whose sum is at most n
CountTables(k, n) == {p.t : p \in CountPrefixes(k, n)}

\* the topn and min_perc arguments: the defaults (20, 1), a cut to one row
\* and a threshold of one half
TopnArgs == {1, 20}
MinPercArgs == {1, 50}

\* get_cluster_traits on one trait column: the rows (clusterID, value,
\* percent) it returns
get_cluster_traits(size, has_clusterID, has_column, topn, min_perc) ==
    LET cells == {j \in 1..Len(size) : size[j] > 0}
        num_clusters == Cardinality({CellCluster(j) : j \in cells})
        cluster_total(k) == SumOver(size, {j \in cells : CellCluster(j) = k})
        denominator(j) == IF num_clusters = 1 THEN SumOver(size, cells)
                          ELSE cluster_total(CellCluster(j))
        groups == {[cell |-> j,
                    percent |-> RoundHalfEven(size[j] * 100, denominator(j))] :
                      j \in cells}
        head(kept) ==
            {g \in kept :
                Cardinality({h \in kept :
                    /\ CellCluster(h.cell) = CellCluster(g.cell)
                    /\ \/ h.percent > g.percent
                       \/ h.percent = g.percent /\ h.cell < g.cell}) < topn}
    IN IF ~has_clusterID THEN Raise("ValueError")
       ELSE IF ~has_column THEN Raise("ValueError")
       ELSE Ok({ [clusterID |-> CellCluster(g.cell), value |-> CellValue(g.cell),
                  percent |-> g.percent] :
                    g \in head({g \in groups : g.percent >= min_perc}) })

----------------------------------------------------------------------------
(* Specification: get_cluster_traits applied to every bounded deck table *)

InitTraits ==
    /\ pc = "ready"
    /\ args \in
        [fn : {"get_cluster_traits"},
         size : {t \in CountTables(TraitCells, MaxTraitDecks) :
                    \E j \in 1..Len(t) : t[j] > 0},
         has_clusterID : BOOLEAN, has_column : BOOLEAN,
         topn : TopnArgs, min_perc : MinPercArgs]
    /\ ret = NoCall
    /\ AggIdle
    /\ rng = Rng(FALSE, 0)

CallGetClusterTraits ==
    /\ pc = "ready"
    /\ args.fn = "get_cluster_traits"
    /\ ret' = get_cluster_traits(args.size, args.has_clusterID, args.has_column,
                                 args.topn, args.min_perc)
    /\ pc' = "done"
    /\ UNCHANGED <<args, aggVars, rng>>

NextTraits == CallGetClusterTraits

SpecTraits == InitTraits /\ [][NextTraits]_vars

----------------------------------------------------------------------------
(* C8 *)

RECURSIVE SumPercent(_)
\* the sum of the percent column over a set of reported rows
SumPercent(rows) ==
    IF rows = {} THEN 0
    ELSE LET r == CHOOSE x \in rows : TRUE IN r.percent + SumPercent(rows \ {r})

\* get_cluster_traits returned rows
TraitsReturned ==
    pc = "done" /\ args.fn = "get_cluster_traits" /\ ret.raised = "none"

\* the rows reported for cluster k
TraitRows(k) == {r \in ret.value : r.clusterID = k}

\* the decks of cluster k in the table given
TraitClusterSize(k) ==
    SumOver(args.size, {j \in 1..Len(args.size) : CellCluster(j) = k})

\* C8 as stated: for every (cluster, category) pair the reported percents
\* are non-negative integers whose sum is at most 100.
C8_TraitPercentsSumAtMost100 ==
    TraitsReturned =>
        \A k \in 0..MaxLabel :
            /\ \A r \in TraitRows(k) : r.percent \in Nat
            /\ SumPercent(TraitRows(k)) <= 100

\* C8 amended: every reported percent is an integer from min_perc to 100 that
\* differs from count*100/cluster size by at most one half, so the sum over
\* the rows of a (cluster, category) pair is at most 100 plus half the number
\* of rows; it can exceed 100.
C8_TraitPercentsRounded ==
    TraitsReturned =>
        \A k \in 0..MaxLabel :
            /\ \A r \in TraitRows(k) :
                  LET count == args.size[k * MaxValues + r.value]
                      total == TraitClusterSize(k)
                  IN /\ r.percent \in Nat
                     /\ r.percent >= args.min_perc /\ r.percent <= 100
                     /\ 2 * Abs(r.percent * total - 100 * count) <= total
            /\ Cardinality(TraitRows(k)) <= args.topn
            /\ 2 * SumPercent(TraitRows(k)) <= 200 + Cardinality(TraitRows(k))

\* a cluster of 7 decks whose reported percents add up to more than 100
C8_Witness ==
    /\ TraitsReturned
    /\ \E k \in 0..MaxLabel :
          /\ TraitClusterSize(k) = 7
          /\ SumPercent(TraitRows(k)) > 100

----------------------------------------------------------------------------
(* ClusterAnalysisService.get_cluster_card_counts *)

\* The columns of the tables are computed independently of one another; the
\* model follows the column of one card.  A deck row holds, for that card:
\*   clusterID : the deck's label
\*   plays     : the deck's entry of decklist_matrix
\*   commander : TRUE when commanderID, partnerID or companionID names the card
\*   date_ok   : date_matrix[deck date bucket, card date bucket]
\*   ci_ok     : ci_matrix[deck colour identity, card colour identity]
\* Line 217 conjoins the two tests, so a deck that fails the date test is
\* listed once, with ci_ok = FALSE.
DeckRows ==
    {r \in [clusterID : 0..MaxLabel, plays : 0..1, commander : BOOLEAN,
            date_ok : BOOLEAN, ci_ok : BOOLEAN] : r.date_ok \/ ~r.ci_ok}

\* precomputed_noncard: no entry, or a row for cluster 0
PrecomputedArgs == {<< >>} \cup {0 :> v : v \in 0..MaxPrecomputed}

\* np.array_split(s, parts): parts consecutive pieces of s, the first
\* Len(s) % parts of them one element longer
array_split_even(s, parts) ==
    LET piece == Len(s) \div parts
    IN [i \in 1..parts |-> SubSeq(s, (i - 1) * piece + 1, i * piece)]
array_split(s, parts) ==
    LET n == Len(s)
        piece == n \div parts
        extra == n % parts
        start(i) == (i - 1) * piece + Min(i - 1, extra)
        size(i) == piece + (IF i <= extra THEN 1 ELSE 0)
    IN [i \in 1..parts |-> SubSeq(s, start(i) + 1, start(i) + size(i))]

\* DataFrame.clip(lower=0) of line 222
clip_none(x) == x
clip(x) == Max(x, 0)

RECURSIVE SumSeq(_)
\* the sum of a sequence of numbers
SumSeq(s) == IF s = << >> THEN 0 ELSE Head(s) + SumSeq(Tail(s))

\* the test of line 143 that guards the subtraction of lines 144-156
remove_commanders_never(include_commanders) == FALSE
remove_commanders(include_commanders) == include_commanders

\* get_cluster_card_counts: the actual-play and non-play tables, one entry
\* per cluster, and with them the counterfactual table as it stands before
\* line 222 (could_play).  An empty table has no maximal label (np.zeros of a NaN
\* shape); labels that are not 0..K-1 give a count array whose rows do not
\* match the cluster index at line 158.
get_cluster_card_counts(decks, include_commanders, color_rule, chunksize, precomputed) ==
    LET n == Len(decks)
        clusters == {decks[i].clusterID : i \in 1..n}
        max_cluster == (CHOOSE k \in clusters : \A j \in clusters : j <= k) + 1
        members(k) == SelectSeq([i \in 1..n |-> i],
                                LAMBDA i : decks[i].clusterID = k)
        card_count(k) ==
            Cardinality({i \in 1..n : decks[i].clusterID = k /\ decks[i].plays = 1})
            - (IF remove_commanders(include_commanders)
               THEN Cardinality({i \in 1..n : decks[i].clusterID = k
                                              /\ decks[i].commander})
               ELSE 0)
        can_play(i) == decks[i].date_ok /\ (color_rule = "ignore" \/ decks[i].ci_ok)
        chunk_play(chunk) == Cardinality({j \in 1..Len(chunk) : can_play(chunk[j])})
        total_can_play(k) ==
            LET chunks == array_split(members(k),
                                      (Len(members(k)) \div chunksize) + 1)
            IN SumSeq([c \in 1..Len(chunks) |-> chunk_play(chunks[c])])
        potential(k) == IF k \in DOMAIN precomputed THEN precomputed[k]
                        ELSE total_can_play(k)
    IN IF n = 0 THEN Raise("TypeError")
       ELSE IF clusters # 0..(max_cluster - 1) THEN Raise("ValueError")
       ELSE Ok([card |-> [k \in clusters |-> card_count(k)],
                could_play |-> [k \in clusters |-> potential(k)],
                noncard |-> [k \in clusters |->
                                clip(potential(k) - card_count(k))]])

----------------------------------------------------------------------------
(* ClusterAnalysisService.get_defining_cards *)

\* a float: a ratio n / d with d > 0, an infinity or NaN
Ratio(n, d) == [kind |-> "num", n |-> n, d |-> d]
PosInf == [kind |-> "+inf"]
NegInf == [kind |-> "-inf"]
NaN == [kind |-> "nan"]

\* a / b of two counts followed by fillna(0)
DivideFillna(a, b) ==
    IF b = 0 THEN (IF a = 0 THEN Ratio(0, 1) ELSE IF a > 0 THEN PosInf ELSE NegInf)
    ELSE IF b > 0 THEN Ratio(a, b)
    ELSE Ratio(-a, -b)

\* x - y of two floats
Subtract(x, y) ==
    IF x.kind = "num" /\ y.kind = "num"
    THEN Ratio(x.n * y.d - y.n * x.d, x.d * y.d)
    ELSE IF x.kind = "nan" \/ y.kind = "nan" THEN NaN
    ELSE IF x.kind = "num" THEN (IF y.kind = "+inf" THEN NegInf ELSE PosInf)
    ELSE IF y.kind = "num" THEN x
    ELSE IF x.kind = y.kind THEN NaN
    ELSE x

\* round(2): to hundredths
Round2(x) ==
    IF x.kind = "num" THEN Ratio(RoundHalfEven(100 * x.n, x.d), 100) ELSE x

\* get_defining_cards: per cluster the row of the card, its play_rate and,
\* when computed, its synergy
get_defining_cards(card, noncard, include_synergy) ==
    LET clusters == DOMAIN card
        synergy_computed == include_synergy /\ Cardinality(clusters) # 1
        play_rate(k) == DivideFillna(card[k], card[k] + noncard[k])
        play_other(k) == SumOver(card, clusters \ {k})
        nonplay_other(k) == SumOver(noncard, clusters \ {k})
        other_play_rate(k) ==
            DivideFillna(play_other(k), nonplay_other(k) + play_other(k))
    IN [k \in clusters |->
          [clusterID |-> k,
           play_rate |-> Round2(play_rate(k)),
           synergy |-> IF synergy_computed
                       THEN Some(Round2(Subtract(play_rate(k), other_play_rate(k))))
                       ELSE None]]

----------------------------------------------------------------------------
(* Specification: the card analysis, get_cluster_card_counts followed by
   get_defining_cards on the tables it returned, on every bounded input *)

InitCards ==
    /\ pc = "ready"
    /\ \E n \in 0..MaxCardDecks :
          args \in [fn : {"get_cluster_card_counts"},
                    decks : [1..n -> DeckRows],
                    include_commanders : BOOLEAN,
                    color_rule : {"ignore", "strict"},
                    chunksize : 1..MaxChunk,
                    precomputed_noncard : PrecomputedArgs]
    /\ ret = NoCall
    /\ AggIdle
    /\ rng = Rng(FALSE, 0)

CallGetClusterCardCounts ==
    /\ pc = "ready"
    /\ args.fn = "get_cluster_card_counts"
    /\ ret' = get_cluster_card_counts(args.decks, args.include_commanders,
                                      args.color_rule, args.chunksize,
                                      args.precomputed_noncard)
    /\ pc' = "counted"
    /\ UNCHANGED <<args, aggVars, rng>>

CallGetDefiningCards ==
    /\ pc = "counted"
    /\ ret.raised = "none"
    /\ \E include_synergy \in BOOLEAN :
          ret' = [raised |-> "none", value |-> ret.value,
                  include_synergy |-> include_synergy,
                  defining |-> get_defining_cards(ret.value.card,
                                                  ret.value.noncard,
                                                  include_synergy)]
    /\ pc' = "defined"
    /\ UNCHANGED <<args, aggVars, rng>>

NextCards == CallGetClusterCardCounts \/ CallGetDefiningCards

SpecCards == InitCards /\ [][NextCards]_vars

----------------------------------------------------------------------------
(* C9 *)

\* C9: for every cluster, and for every setting of the commander flag and
\* the color rule, the play_rate get_defining_cards reports for the card lies
\* in [0, 1].
C9_PlayRateInUnitInterval ==
    pc = "defined" =>
        \A k \in DOMAIN ret.defining :
            LET rate == ret.defining[k].play_rate
            IN rate.kind = "num" /\ 0 <= rate.n /\ rate.n <= rate.d

----------------------------------------------------------------------------
(* C10 *)

\* the decks of cluster k that could have played the card
CouldPlay(k) ==
    {i \in 1..Len(args.decks) :
        /\ args.decks[i].clusterID = k
        /\ args.decks[i].date_ok
        /\ args.color_rule = "ignore" \/ args.decks[i].ci_ok}

\* the counterfactual count of cluster k: the precomputed row where one is
\* supplied, the number of decks that could have played the card otherwise
Counterfactual(k) ==
    IF k \in DOMAIN args.precomputed_noncard THEN args.precomputed_noncard[k]
    ELSE Cardinality(CouldPlay(k))

\* C10: for every cluster the non-play count get_cluster_card_counts returns
\* is max(counterfactual count - actual play count, 0), hence never negative,
\* also for a precomputed counterfactual row.
C10_NonPlayClippedAtZero ==
    (pc = "counted" /\ ret.raised = "none") =>
        \A k \in DOMAIN ret.value.noncard :
            /\ ret.value.noncard[k] = Max(Counterfactual(k) - ret.value.card[k], 0)
            /\ ret.value.noncard[k] >= 0

\* a precomputed counterfactual row below the actual play count, clipped
C10_Witness ==
    /\ pc = "counted" /\ ret.raised = "none"
    /\ 0 \in DOMAIN args.precomputed_noncard
    /\ ret.value.card[0] > args.precomputed_noncard[0]
    /\ ret.value.noncard[0] = 0

----------------------------------------------------------------------------
(* C22 *)

\* the raw play count of the card in cluster k: the sum of the members'
\* matrix entries
RawCount(k) ==
    Cardinality({i \in 1..Len(args.decks) :
                    args.decks[i].clusterID = k /\ args.decks[i].plays = 1})

\* the member decks of cluster k naming the card as commander, partner or
\* companion
NamedAsCommander(k) ==
    Cardinality({i \in 1..Len(args.decks) :
                    args.decks[i].clusterID = k /\ args.decks[i].commander})

----------------------------------------------------------------------------
(* C24 *)

\* the play rate of the card over the clusters other than k, taken as 0 when
\* no count is left to divide by
OtherPlayRate(k) ==
    LET others == DOMAIN ret.value.card \ {k}
        actual == SumOver(ret.value.card, others)
        nonplay == SumOver(ret.value.noncard, others)
    IN IF actual + nonplay = 0 THEN Ratio(0, 1)
       ELSE DivideFillna(actual, actual + nonplay)

\* C24: with more than one cluster and synergy requested, the synergy of the
\* card in cluster k is (to two decimals) its play rate in k minus its play
\* rate over the other clusters, that rate being 0 when its denominator is 0;
\* with exactly one cluster no synergy is computed.
C24_SynergyAgainstOthers ==
    pc = "defined" =>
        \A k \in DOMAIN ret.defining :
            IF Cardinality(DOMAIN ret.defining) > 1 /\ ret.include_synergy
            THEN ret.defining[k].synergy =
                    Some(Round2(Subtract(
                        DivideFillna(ret.value.card[k],
                                     ret.value.card[k] + ret.value.noncard[k]),
                        OtherPlayRate(k))))
            ELSE Cardinality(DOMAIN ret.defining) = 1
                    => ret.defining[k].synergy = None

----------------------------------------------------------------------------
(* Specification: the counterfactual counts of get_cluster_card_counts for
   every bounded chunk size, on tables of decks that differ in their label
   and in the two legality tests *)

InitChunks ==
    /\ pc = "ready"
    /\ \E n \in 1..MaxChunkDecks :
          args \in [fn : {"get_cluster_card_counts"},
                    decks : [1..n -> {r \in DeckRows : r.plays = 0 /\ ~r.commander}],
                    include_commanders : {FALSE},
                    color_rule : {"ignore", "strict"},
                    chunksize : 1..MaxChunkSize,
                    precomputed_noncard : {<< >>}]
    /\ ret = NoCall
    /\ AggIdle
    /\ rng = Rng(FALSE, 0)

CallGetClusterCardCountsChunked ==
    /\ pc = "ready"
    /\ args.fn = "get_cluster_card_counts"
    /\ ret' = get_cluster_card_counts(args.decks, args.include_commanders,
                                      args.color_rule, args.chunksize,
                                      args.precomputed_noncard)
    /\ pc' = "counted"
    /\ UNCHANGED <<args, aggVars, rng>>

NextChunks == CallGetClusterCardCountsChunked

SpecChunks == InitChunks /\ [][NextChunks]_vars

----------------------------------------------------------------------------
(* C23 *)

\* the member decks of cluster k
ClusterSize(k) == Cardinality({i \in 1..Len(args.decks) : args.decks[i].clusterID = k})

\* C23: for every chunk size and every cluster size, the could-have-played
\* count of a cluster whose counterfactual row is computed is the number of
\* member decks that pass the date test and, unless color_rule is 'ignore',
\* the colour-identity test, whatever the chunk size.
C23_ChunkingPreservesCount ==
    (pc = "counted" /\ ret.raised = "none") =>
        \A k \in DOMAIN ret.value.could_play :
            k \notin DOMAIN args.precomputed_noncard =>
                ret.value.could_play[k] = Cardinality(CouldPlay(k))

\* under the colour rule and a chunk size of two, a cluster of four decks
\* (an exact multiple of the chunk size) of which three could play the card
C23_Witness ==
    /\ pc = "counted" /\ ret.raised = "none"
    /\ args.chunksize = 2
    /\ args.color_rule = "strict"
    /\ \E k \in DOMAIN ret.value.could_play :
          ClusterSize(k) = 4 /\ ret.value.could_play[k] = 3

----------------------------------------------------------------------------
(* ClusterAnalysisService.calculate_average_decklists *)

\* A deck row holds its label, the number of cards of its decklist (size) and
\* the mean of the defining-card values of those cards (score); np.mean of an
\* empty decklist is NaN, written NoScore.
NoScore == -1
AvgDeckRows ==
    {r \in [clusterID : 0..MaxLabel, size : 0..MaxDeckSize,
            score : {NoScore} \cup (0..MaxScore)] :
        (r.size = 0) <=> (r.score = NoScore)}

\* the r-th smallest (from 0) size among the rows S
SortedAt(decks, S, r) ==
    CHOOSE v \in {decks[i].size : i \in S} :
        /\ Cardinality({i \in S : decks[i].size < v}) <= r
        /\ Cardinality({i \in S : decks[i].size <= v}) > r

\* 100 * np.percentile(sizes of S, q): linear interpolation between the two
\* closest ranks
Percentile100(decks, S, q) ==
    LET n == Cardinality(S)
        lo == (q * (n - 1)) \div 100
        frac == (q * (n - 1)) % 100
        a == SortedAt(decks, S, lo)
        b == SortedAt(decks, S, Min(lo + 1, n - 1))
    IN 100 * a + frac * (b - a)

\* idxmax over an all-NaN score column: NaN, which iloc refuses (TypeError),
\* or ValueError, by pandas version
IdxmaxAllNaN == {"TypeError", "ValueError"}

\* the representative deck of cluster k (lines 336-367): the first deck of
\* highest score among the decks whose size lies between the 20th and 80th
\* percentile, all decks of the cluster when none does; 0 when every score
\* considered is NaN
average_deck(decks, k) ==
    LET members == {i \in 1..Len(decks) : decks[i].clusterID = k}
        between == {i \in members :
                      /\ Percentile100(decks, members, 20) <= 100 * decks[i].size
                      /\ 100 * decks[i].size <= Percentile100(decks, members, 80)}
        filtered == IF between = {} THEN members ELSE between
        scored == {i \in filtered : decks[i].score # NoScore}
    IN IF scored = {} THEN 0
       ELSE CHOOSE i \in scored :
               /\ \A j \in scored : decks[j].score <= decks[i].score
               /\ \A j \in scored : (j < i) => decks[j].score < decks[i].score

\* calculate_average_decklists(commander_decks, ..., ignore_clusters): the
\* dict cluster -> deckID (a deck is identified by its row), or the raise of
\* the first cluster that has no scored deck
calculate_average_decklists(decks, ignore_clusters) ==
    LET clusters == {decks[i].clusterID : i \in 1..Len(decks)} \ ignore_clusters
        picks == [k \in clusters |-> average_deck(decks, k)]
    IN IF \E k \in clusters : picks[k] = 0
       THEN {Raise(e) : e \in IdxmaxAllNaN}
       ELSE {Ok(picks)}

----------------------------------------------------------------------------
(* Specification: calculate_average_decklists on every bounded deck table *)

InitAverage ==
    /\ pc = "ready"
    /\ \E n \in 0..MaxAvgDecks :
          args \in [fn : {"calculate_average_decklists"},
                    decks : [1..n -> AvgDeckRows],
                    ignore_clusters : SUBSET (0..MaxLabel)]
    /\ ret = NoCall
    /\ AggIdle
    /\ rng = Rng(FALSE, 0)

CallCalculateAverageDecklists ==
    /\ pc = "ready"
    /\ args.fn = "calculate_average_decklists"
    /\ \E r \in calculate_average_decklists(args.decks, args.ignore_clusters) :
          ret' = r
    /\ pc' = "done"
    /\ UNCHANGED <<args, aggVars, rng>>

NextAverage == CallCalculateAverageDecklists

SpecAverage == InitAverage /\ [][NextAverage]_vars

----------------------------------------------------------------------------
(* C11 *)

\* C11: calculate_average_decklists maps every cluster of the table that is
\* not in ignore_clusters to one deck whose label is that cluster, and has no
\* entry for an ignored cluster.
C11_AverageDeckInCluster ==
    (pc = "done" /\ args.fn = "calculate_average_decklists") =>
        /\ ret.raised = "none"
        /\ DOMAIN ret.value =
              {args.decks[i].clusterID : i \in 1..Len(args.decks)}
                 \ args.ignore_clusters
        /\ \A k \in DOMAIN ret.value :
              /\ ret.value[k] \in 1..Len(args.decks)
              /\ args.decks[ret.value[k]].clusterID = k

----------------------------------------------------------------------------
(* C25 *)

\* the member decks of cluster k
AvgMembers(k) == {i \in 1..Len(args.decks) : args.decks[i].clusterID = k}

\* the members whose size lies within the [20th, 80th] percentile of the
\* cluster's sizes, or all members when none does
AvgEligible(k) ==
    LET within == {i \in AvgMembers(k) :
                     /\ Percentile100(args.decks, AvgMembers(k), 20) <= 100 * args.decks[i].size
                     /\ 100 * args.decks[i].size <= Percentile100(args.decks, AvgMembers(k), 80)}
    IN IF within = {} THEN AvgMembers(k) ELSE within

\* C25: for each cluster that is not ignored, calculate_average_decklists
\* selects among the eligible member decks one of maximum mean card score,
\* the one of lowest row index among those.
C25_BestEligibleDeck ==
    (pc = "done" /\ args.fn = "calculate_average_decklists") =>
        /\ ret.raised = "none"
        /\ \A k \in DOMAIN ret.value :
              /\ ret.value[k] \in AvgEligible(k)
              /\ \A j \in AvgEligible(k) :
                    /\ args.decks[j].score <= args.decks[ret.value[k]].score
                    /\ args.decks[j].score = args.decks[ret.value[k]].score
                          => ret.value[k] <= j

----------------------------------------------------------------------------
(* ExportService.jsonify_map *)

\* The rows of cluster_traits the export distinguishes: a trait row that is
\* exported, and a tribe row with the empty value, which lines 74-77 drop.
ExportTraitRows ==
    {[clusterID |-> k, category |-> "colorIdentityID", value |-> "W"] :
        k \in 0..MaxLabel}
    \cup {[clusterID |-> k, category |-> "tribeID", value |-> ""] :
             k \in 0..MaxLabel}

\* the objects of json_data in order: the clusters in increasing order
RECURSIVE SortedSeq(_)
SortedSeq(S) ==
    IF S = {} THEN << >>
    ELSE LET m == CHOOSE x \in S : \A y \in S : x <= y
         IN <<m>> \o SortedSeq(S \ {m})

\* jsonify_map(..., cluster_labels, cluster_traits, clusters): clusters is
\* None or the set of requested cluster ids.  The result is one object
\* (kind "object") or a list of objects (kind "list"); an object carries its
\* clusterID only when several are exported (line 89).
jsonify_map(labels, cluster_traits, clusters) ==
    LET requested == IF clusters = None
                     THEN {labels[i] : i \in 1..Len(labels)}
                     ELSE clusters.v
        traits == {t \in cluster_traits :
                     /\ t.clusterID \in requested
                     /\ ~(t.category \in {"tribeID", "themeID"} /\ t.value = "")}
        exported == SortedSeq({t.clusterID : t \in traits})
        json_data == [j \in 1..Len(exported) |->
                        [clusterID |-> IF Len(exported) > 1
                                       THEN Some(exported[j]) ELSE None,
                         of |-> exported[j],
                         traits |-> {t \in traits : t.clusterID = exported[j]}]]
    IN IF Len(json_data) = 1
       THEN Ok([kind |-> "object", v |-> json_data[1]])
       ELSE Ok([kind |-> "list", v |-> json_data])

----------------------------------------------------------------------------
(* Specification: jsonify_map on every bounded label array, trait table and
   cluster request *)

InitExport ==
    /\ pc = "ready"
    /\ \E n \in 0..MaxExportDecks :
          args \in [fn : {"jsonify_map"},
                    cluster_labels : [1..n -> 0..MaxLabel],
                    cluster_traits : SUBSET ExportTraitRows,
                    clusters : {None} \cup {Some(c) : c \in SUBSET (0..MaxLabel)}]
    /\ ret = NoCall
    /\ AggIdle
    /\ rng = Rng(FALSE, 0)

CallJsonifyMap ==
    /\ pc = "ready"
    /\ args.fn = "jsonify_map"
    /\ ret' = jsonify_map(args.cluster_labels, args.cluster_traits, args.clusters)
    /\ pc' = "done"
    /\ UNCHANGED <<args, aggVars, rng>>

NextExport == CallJsonifyMap

SpecExport == InitExport /\ [][NextExport]_vars

----------------------------------------------------------------------------
(* C12 *)

\* C12: jsonify_map returns a single object when exactly one cluster is
\* requested, and a list of N objects, one per requested cluster, when
\* N >= 2 clusters are requested.
C12_ShapeFollowsRequest ==
    (pc = "done" /\ args.fn = "jsonify_map" /\ args.clusters # None) =>
        LET N == Cardinality(args.clusters.v)
        IN /\ N = 1 => ret.value.kind = "object"
           /\ N >= 2 =>
                 /\ ret.value.kind = "list"
                 /\ Len(ret.value.v) = N
                 /\ {ret.value.v[j].of : j \in 1..N} = args.clusters.v

----------------------------------------------------------------------------
(* The reference structures shared by a map and its submaps *)

\* The reference structures are Python objects; a field of an aggregate points
\* at one, and assigning a field copies the pointer.  `reference` is
\* [heap, parent, submap]: heap maps every allocated object to its value,
\* parent and submap map each reference field of that aggregate to the object
\* it points at (submap is None until a submap is built).  A matrix is the set
\* of its true cells <<row, column>>, a lookup the set of its items
\* <<key, index>>; cards and decks are numbered.
ReferenceFields ==
    {"date_matrix", "ci_matrix", "card_idx_lookup", "deck_date_idx_lookup",
     "card_date_idx_lookup", "deck_ci_idx_lookup", "card_ci_idx_lookup"}

RefCards == {0}
RefDecks == {0}

\* the cells of a matrix with rows 0..n, one per deck index, and one column
\* per card index
Cells(n) == (0..n) \X {c : c \in RefCards}
Lookups(keys, n) == {{<<k, f[k]>> : k \in keys} : f \in [keys -> 0..n]}
At(lookup, k) == CHOOSE v \in {item[2] : item \in lookup} : <<k, v>> \in lookup
Keys(lookup) == {item[1] : item \in lookup}

\* _load_commander_map (lines 216-222): every field of the main map points at
\* the object the loader returned
LoadedReference(date_matrix, ci_matrix, deck_dates, card_dates, deck_cis, card_cis) ==
    [heap |-> [o \in ReferenceFields |->
                 CASE o = "date_matrix" -> date_matrix
                   [] o = "ci_matrix" -> ci_matrix
                   [] o = "card_idx_lookup" -> {<<c, c>> : c \in RefCards}
                   [] o = "deck_date_idx_lookup" -> deck_dates
                   [] o = "card_date_idx_lookup" -> card_dates
                   [] o = "deck_ci_idx_lookup" -> deck_cis
                   [] o = "card_ci_idx_lookup" -> card_cis],
     parent |-> [f \in ReferenceFields |-> f],
     submap |-> None]

\* an assignment into the array o: arrays a service allocates for itself are
\* not in the heap of the reference structures and are dropped when it returns
Write(heap, o, value) ==
    IF o \in DOMAIN heap THEN [heap EXCEPT ![o] = value] ELSE heap

\* the array line 217 accumulates into: total_can_play, allocated at line 206
accumulate_target_shared(fields) == fields["date_matrix"]
accumulate_target(fields) == "total_can_play"

\* get_cluster_card_counts (lines 167-227) on the aggregate whose fields are
\* `fields`: the heap it leaves.  date_matrix[date_chunk, card_dates] and
\* ci_matrix[ci_chunk, card_cis] index with integer arrays, which copies
card_counts_heap(heap, fields, color_rule) ==
    LET date_matrix == heap[fields["date_matrix"]]
        ci_matrix == heap[fields["ci_matrix"]]
        card_idx_lookup == heap[fields["card_idx_lookup"]]
        deck_dates == heap[fields["deck_date_idx_lookup"]]
        card_dates == heap[fields["card_date_idx_lookup"]]
        deck_cis == heap[fields["deck_ci_idx_lookup"]]
        card_cis == heap[fields["card_ci_idx_lookup"]]
        can_play(d, c) ==
            /\ <<At(deck_dates, d), At(card_dates, c)>> \in date_matrix
            /\ color_rule = "ignore"
               \/ <<At(deck_cis, d), At(card_cis, c)>> \in ci_matrix
        total_can_play ==
            {<<At(card_idx_lookup, c),
               Cardinality({d \in RefDecks : can_play(d, c)})>> :
                 c \in Keys(card_idx_lookup)}
    IN Write(heap, accumulate_target(fields), total_can_play)

\* calculate_average_decklists (line 326) inverts card_idx_lookup into a new
\* dictionary
average_decklists_heap(heap, fields) ==
    LET card_idx_lookup == heap[fields["card_idx_lookup"]]
    IN Write(heap, "idx_to_card", {<<item[2], item[1]>> : item \in card_idx_lookup})

Stages ==
    {"reduce_dimensionality", "cluster_decks", "assign_unclustered",
     "get_cluster_traits", "get_cluster_card_counts", "get_defining_cards",
     "calculate_average_decklists", "jsonify_map"}

\* the heap a stage of the aggregate leaves: only two stages are handed
\* reference structures (commander_map.py lines 297-303 and 367)
stage_heap(stage, heap, fields, color_rule) ==
    CASE stage = "get_cluster_card_counts" -> card_counts_heap(heap, fields, color_rule)
      [] stage = "calculate_average_decklists" -> average_decklists_heap(heap, fields)
      [] OTHER -> heap

\* _create_submaps (lines 195-208): the submap gets a card index of its own
\* over the cards its decks play, and the main map's other six objects
CreateSubmap ==
    /\ pc \in {"loaded", "submapped"}
    /\ \E played \in SUBSET RefCards :
          LET submap_card_idx == {<<c, c>> : c \in played}
          IN reference' =
               [heap |-> [o \in DOMAIN reference.heap \cup {"submap_card_idx"} |->
                            IF o = "submap_card_idx" THEN submap_card_idx
                            ELSE reference.heap[o]],
                parent |-> reference.parent,
                submap |-> Some([f \in ReferenceFields |->
                                   IF f = "card_idx_lookup" THEN "submap_card_idx"
                                   ELSE reference.parent[f]])]
    /\ pc' = "submapped"
    /\ args' = [fn |-> "_create_submaps"]
    /\ UNCHANGED <<ret, decklist_matrix, commander_decks, cdecks, coordinates,
                   cluster_embedding, cluster_labels, rng, jobs>>

\* the reference fields of the main map ("parent") or of the submap
FieldsOf(r, aggregate) == IF aggregate = "parent" THEN r.parent ELSE r.submap.v

\* a stage called on the main map or on the submap; what the stage computes is
\* the subject of the other specifications
CallStage(aggregate, stage, color_rule) ==
    /\ pc \in {"loaded", "submapped"}
    /\ aggregate = "submap" => reference.submap # None
    /\ args' = [fn |-> stage, on |-> aggregate, color_rule |-> color_rule]
    /\ reference' = [reference EXCEPT !.heap =
                        stage_heap(stage, @, FieldsOf(reference, aggregate),
                                   color_rule)]
    /\ UNCHANGED <<pc, ret, decklist_matrix, commander_decks, cdecks,
                   coordinates, cluster_embedding, cluster_labels, rng, jobs>>

InitShared ==
    /\ pc = "loaded"
    /\ args = [fn |-> "none"]
    /\ ret = NoCall
    /\ decklist_matrix = None
    /\ commander_decks = None
    /\ cdecks = None
    /\ coordinates = None
    /\ cluster_embedding = None
    /\ cluster_labels = None
    /\ jobs = None
    /\ rng = Rng(FALSE, 0)
    /\ \E date_matrix \in SUBSET Cells(MaxDateIdx),
          ci_matrix \in SUBSET Cells(MaxCiIdx),
          deck_dates \in Lookups(RefDecks, MaxDateIdx),
          card_dates \in Lookups(RefCards, 0),
          deck_cis \in Lookups(RefDecks, MaxCiIdx),
          card_cis \in Lookups(RefCards, 0) :
          reference = LoadedReference(date_matrix, ci_matrix, deck_dates,
                                      card_dates, deck_cis, card_cis)

NextShared ==
    \/ CreateSubmap
    \/ \E aggregate \in {"parent", "submap"}, stage \in Stages,
          color_rule \in {"ignore", "restrict"} :
          CallStage(aggregate, stage, color_rule)

SpecShared == InitShared /\ [][NextShared]_vars

----------------------------------------------------------------------------
(* C16 *)

\* C16: no pipeline stage of the main map or of a submap changes the date
\* matrix, the colour-identity matrix or the index lookups: across every step,
\* each reference field of each aggregate points at the same object and that
\* object has the same value, so the structures stay what they were when the
\* aggregate was constructed.
C16_ReferenceStructuresFramed ==
    [][\A aggregate \in {"parent", "submap"} :
          (aggregate = "submap" => (reference.submap # None /\ args'.fn \in Stages))
          => \A f \in ReferenceFields :
                /\ FieldsOf(reference', aggregate)[f] = FieldsOf(reference, aggregate)[f]
                /\ reference'.heap[FieldsOf(reference', aggregate)[f]]
                      = reference.heap[FieldsOf(reference, aggregate)[f]]]_vars

\* a submap that shares a non-empty date matrix with the main map ran
\* get_cluster_card_counts under a colour rule
C16_Witness ==
    /\ pc = "submapped"
    /\ args.fn = "get_cluster_card_counts"
    /\ args.on = "submap"
    /\ args.color_rule = "restrict"
    /\ reference.submap.v["date_matrix"] = reference.parent["date_matrix"]
    /\ reference.heap["date_matrix"] # {}

----------------------------------------------------------------------------
(* C17 *)

\* the labels an array holds
LabelSet(labels) == {labels[i] : i \in 1..Len(labels)}

\* fit_predict numbers its clusters 0..K-1 and marks noise with the sentinel
DenseOrSentinel(labels) ==
    \E K \in 0..(MaxLabel + 1) : LabelSet(labels) \ {Sentinel} = 0..(K - 1)

\* C17: when cluster_decks returned labels that are dense apart from the
\* sentinel and assign_unclustered is called next, the labels the aggregate
\* then holds are exactly 0..K-1 for some K >= 1.
C17_DenseAfterReassign ==
    [][(/\ args.fn = "cluster_decks"
        /\ ret.raised = "none"
        /\ DenseOrSentinel(cluster_labels.v)
        /\ args'.fn = "assign_unclustered")
       => \E K \in 1..(MaxLabel + 1) : LabelSet(cluster_labels'.v) = 0..(K - 1)]_vars

----------------------------------------------------------------------------
(* C19 *)

\* C19: a stage of the aggregate succeeds only after its predecessor has
\* completed: cluster_decks returns only when an embedding is stored, and
\* assign_unclustered returns only when cluster_decks has produced labels.
C19_StagesInOrder ==
    [][/\ (args'.fn = "cluster_decks" /\ ret'.raised = "none")
             => cluster_embedding # None
       /\ (args'.fn = "assign_unclustered" /\ ret'.raised = "none")
             => cluster_labels # None]_vars

----------------------------------------------------------------------------
(* ClusterAnalysisService.get_cluster_traits: the column checks *)

\* the default value of the columns argument (lines 30-32)
TraitColumns == {"commander-partnerID", "colorIdentityID", "themeID", "tribeID"}

\* an exception with its message: the text and the column names it formats
RaiseNaming(e, text, names) == [raised |-> e, text |-> text, names |-> names]

\* line 51: the requested columns that drop_categories does not exclude
kept_columns_all(columns, drop_categories) == columns
kept_columns(columns, drop_categories) == columns \ drop_categories

\* get_cluster_traits up to the loop over the columns (lines 47-55) on a table
\* with the columns table_columns: what it raises, or the columns it goes on
\* to analyse.  With no column left, pd.concat (line 80) refuses the empty list.
get_cluster_traits_columns(table_columns, columns, drop_categories) ==
    LET kept == kept_columns(columns, drop_categories)
        missing_cols == kept \ table_columns
    IN IF "clusterID" \notin table_columns
       THEN RaiseNaming("ValueError", "Must have clusterID column in commander_decks", {})
       ELSE IF missing_cols # {}
       THEN RaiseNaming("ValueError", "Missing columns", missing_cols)
       ELSE IF kept = {}
       THEN RaiseNaming("ValueError", "No objects to concatenate", {})
       ELSE Ok(kept)

InitColumns ==
    /\ pc = "ready"
    /\ args \in [fn : {"get_cluster_traits"},
                 table_columns : SUBSET (TraitColumns \cup {"clusterID"}),
                 columns : SUBSET TraitColumns,
                 drop_categories : SUBSET TraitColumns]
    /\ ret = NoCall
    /\ AggIdle
    /\ rng = Rng(FALSE, 0)

CallGetClusterTraitsColumns ==
    /\ pc = "ready"
    /\ args.fn = "get_cluster_traits"
    /\ ret' = get_cluster_traits_columns(args.table_columns, args.columns,
                                         args.drop_categories)
    /\ pc' = "done"
    /\ UNCHANGED <<args, aggVars, rng>>

NextColumns == CallGetClusterTraitsColumns

SpecColumns == InitColumns /\ [][NextColumns]_vars

----------------------------------------------------------------------------
(* C18 *)

\* the requested columns that are neither dropped nor in the table
AbsentRequested == (args.columns \ args.drop_categories) \ args.table_columns

\* C18: get_cluster_traits raises when the table has no clusterID column; on a
\* table that has one it raises whenever a requested column that is not
\* dropped is absent, and the error then names exactly the absent requested
\* columns, none that is present and none that is dropped.
C18_MissingColumnsNamed ==
    (pc = "done" /\ args.fn = "get_cluster_traits") =>
        /\ "clusterID" \notin args.table_columns => ret.raised = "ValueError"
        /\ ("clusterID" \in args.table_columns /\ AbsentRequested # {}) =>
              /\ ret.raised = "ValueError"
              /\ ret.text = "Missing columns"
              /\ ret.names = AbsentRequested
              /\ ret.names \cap args.table_columns = {}
              /\ ret.names \cap args.drop_categories = {}

\* a table that lacks two requested columns, one of them dropped, and has a
\* third requested column: the error names the one that is absent and kept
C18_Witness ==
    /\ pc = "done"
    /\ args.table_columns = {"clusterID", "colorIdentityID"}
    /\ args.columns = {"colorIdentityID", "themeID", "tribeID"}
    /\ args.drop_categories = {"tribeID"}
    /\ ret.raised = "ValueError"
    /\ ret.names = {"themeID"}

----------------------------------------------------------------------------
(* ClusteringService.handle_disconnected_points: the anchors *)

Commanders == {"A", "B"}

\* _jaccard (lines 205-211) as a fraction n/d; 0.0 when both lists are empty
jaccard(list1, list2) ==
    LET intersection == Cardinality(list1 \cap list2)
        union == Cardinality(list1 \cup list2)
    IN IF union > 0 THEN [n |-> intersection, d |-> union] ELSE [n |-> 0, d |-> 1]

FractionLess(x, y) == x.n * y.d < y.n * x.d

\* np.argmax of a sequence of fractions: the first index of the maximum
Argmax(s) ==
    CHOOSE j \in 1..Len(s) :
        /\ \A i \in 1..Len(s) : ~FractionLess(s[j], s[i])
        /\ \A i \in 1..(j - 1) : FractionLess(s[i], s[j])

\* the last index of the maximum
ArgmaxLast(s) ==
    CHOOSE j \in 1..Len(s) :
        /\ \A i \in 1..Len(s) : ~FractionLess(s[j], s[i])
        /\ \A i \in (j + 1)..Len(s) : FractionLess(s[i], s[j])

\* A deck lookup is None or Some of a dictionary [order, at]: order is the
\* sequence of its keys as items() yields them, at maps a key to its deck
\* [commander, cards].
Dict(order, at) == Some([order |-> order, at |-> at])

\* `if cdecks:` (line 174): a lookup that is given and not empty
lookup_given(cd) == cd # None /\ cd.v.order # << >>

\* lines 178-181: the keys of the other decks with d's commander, in order
decks_with_comm(cd, d) ==
    SelectSeq(cd.v.order,
              LAMBDA i : cd.v.at[i].commander = cd.v.at[d].commander /\ i # d)

\* line 189 picks among the candidates by np.argmax
most_similar_last(scores) == ArgmaxLast(scores)
most_similar(scores) == Argmax(scores)

\* lines 173-195: the values smallest_deck_idx can take for the row d
anchor_choices(d, connected, cd) ==
    IF lookup_given(cd) /\ d \in DOMAIN cd.v.at
    THEN LET candidates == decks_with_comm(cd, d)
             jaccard_distances ==
                 [j \in 1..Len(candidates) |->
                     jaccard(cd.v.at[d].cards, cd.v.at[candidates[j]].cards)]
         IN IF candidates # << >>
            THEN {candidates[most_similar(jaccard_distances)]}
            ELSE connected
    ELSE connected

\* handle_disconnected_points on an embedding of `rows` rows of which the rows
\* nan are undefined: the anchor of each disconnected row and the rows left
\* undefined by line 201, which copies the anchor's row as it was before the
\* assignment and fails on an index that is not a row
repair_anchors(rows, nan, cd) ==
    LET connected == (1..rows) \ nan
        indices == (1..rows) \cup (IF cd = None THEN {} ELSE DOMAIN cd.v.at)
    IN IF nan = {} \/ connected = {}
       THEN {Ok([anchor |-> << >>, nan |-> {}])}
       ELSE { IF \E d \in nan : a[d] \notin 1..rows
              THEN Raise("IndexError")
              ELSE Ok([anchor |-> a, nan |-> {d \in nan : a[d] \in nan}]) :
                a \in {f \in [nan -> indices] :
                         \A d \in nan : f[d] \in anchor_choices(d, connected, cd)} }

Reverse(s) == [i \in 1..Len(s) |-> s[Len(s) + 1 - i]]

\* Specification: the anchors of every bounded embedding and deck lookup whose
\* keys are rows of the embedding
InitAnchor ==
    /\ pc = "ready"
    /\ ret = NoCall
    /\ AggIdle
    /\ rng = Rng(FALSE, 0)
    /\ \E rows \in 1..MaxAnchorRows :
       \E nan \in RowSubsets(rows), keys \in SUBSET (1..rows) :
       \E at \in [keys -> [commander : Commanders, cards : SUBSET (1..MaxAnchorCards)]],
          order \in {SortedSeq(keys), Reverse(SortedSeq(keys))},
          given \in BOOLEAN :
          args = [fn |-> "handle_disconnected_points", rows |-> rows, nan |-> nan,
                  cdecks |-> IF given THEN Dict(order, at) ELSE None]

CallRepairAnchors ==
    /\ pc = "ready"
    /\ args.fn = "handle_disconnected_points"
    /\ \E r \in repair_anchors(args.rows, args.nan, args.cdecks) : ret' = r
    /\ pc' = "done"
    /\ UNCHANGED <<args, aggVars, rng>>

NextAnchor == CallRepairAnchors

SpecAnchor == InitAnchor /\ [][NextAnchor]_vars

----------------------------------------------------------------------------
(* C21 *)

\* the other decks of the lookup that share the commander of the deck at row d
SameCommander(d) ==
    IF args.cdecks = None \/ d \notin DOMAIN args.cdecks.v.at THEN {}
    ELSE {i \in DOMAIN args.cdecks.v.at :
             i # d /\ args.cdecks.v.at[i].commander = args.cdecks.v.at[d].commander}

\* Jaccard similarity of the card lists of rows d and i, times 60 (exact
\* while the two lists hold at most 6 distinct cards)
Similarity(d, i) ==
    LET a == args.cdecks.v.at[d].cards
        b == args.cdecks.v.at[i].cards
    IN IF a \cup b = {} THEN 0
       ELSE (60 * Cardinality(a \cap b)) \div Cardinality(a \cup b)

\* the position of key i in the lookup
Position(i) == CHOOSE j \in 1..Len(args.cdecks.v.order) : args.cdecks.v.order[j] = i

\* C21: in a repair with a connected row and a disconnected one, each
\* disconnected row d is anchored to the first most similar deck of d's
\* commander when the lookup holds one, else to a connected row.
C21_AnchorMostSimilar ==
    (pc = "done" /\ args.nan # {} /\ args.nan # 1..args.rows) =>
        /\ ret.raised = "none"
        /\ \A d \in args.nan :
              IF SameCommander(d) # {}
              THEN /\ ret.value.anchor[d] \in SameCommander(d)
                   /\ \A i \in SameCommander(d) :
                         /\ Similarity(d, i) <= Similarity(d, ret.value.anchor[d])
                         /\ Similarity(d, i) = Similarity(d, ret.value.anchor[d])
                               => Position(ret.value.anchor[d]) <= Position(i)
              ELSE ret.value.anchor[d] \in (1..args.rows) \ args.nan

\* a disconnected deck with two equally similar decks of its commander, the
\* lookup yielding the higher row first: that row is the anchor
C21_Witness ==
    /\ pc = "done"
    /\ args.rows = 3
    /\ args.nan = {1}
    /\ args.cdecks # None
    /\ args.cdecks.v.order = <<3, 2, 1>>
    /\ \A i \in 1..3 : args.cdecks.v.at[i].commander = "A"
    /\ Similarity(1, 2) = Similarity(1, 3)
    /\ ret.raised = "none"
    /\ ret.value.anchor[1] = 3

-----------------------------------------------------------------------------
(* Specification: the dimensions reduce_dimensionality hands to the reducer
   and to the repair (commander_map.py lines 137-145), for every n_dims
   argument and coordinates flag *)

\* the n_dims arguments: omitted (0), or the 2, 4 and 6 the pipelines pass
NDimsGiven == {0, 2, 4, 6}

\* reduce_dimensionality(method='UMAP', n_dims, coordinates) up to the return
\* of the repair: the two dimension arguments and the outcome of the repair
reduce_then_repair(data, n_dims, as_coordinates, fit, cd) ==
    LET reduced == reduce(data, "UMAP", reducer_n_dims(n_dims, as_coordinates), fit)
    IN { [raised |-> repaired.raised,
          value |-> IF repaired.raised = "none" THEN repaired.value ELSE None,
          reducer_dims |-> reducer_n_dims(n_dims, as_coordinates),
          repair_dims |-> repair_n_dims(n_dims),
          columns |-> reduced.value.dims] :
            repaired \in handle_disconnected_points(reduced.value, cd,
                                                    repair_n_dims(n_dims)) }

InitDims ==
    /\ pc = "ready"
    /\ args \in
        UNION { { [fn |-> "reduce_dimensionality", data |-> Matrix(rows, TRUE),
                   n_dims |-> n_dims, coordinates |-> as_coordinates,
                   fit |-> fit, cdecks |-> cd] :
                     fit \in umap_fit_transform(
                                 Matrix(rows, TRUE),
                                 reducer_n_dims(n_dims, as_coordinates)),
                     cd \in {None, Some(0), Some(rows)} } :
                rows \in 0..MaxRows, n_dims \in NDimsGiven,
                as_coordinates \in BOOLEAN }
    /\ ret = NoCall
    /\ AggIdle
    /\ rng = Rng(FALSE, 0)

CallReduceDimensionalityDims ==
    /\ pc = "ready"
    /\ args.fn = "reduce_dimensionality"
    /\ ret' \in reduce_then_repair(args.data, args.n_dims, args.coordinates,
                                   args.fit, args.cdecks)
    /\ pc' = "done"
    /\ UNCHANGED <<args, aggVars, rng>>

NextDims == CallReduceDimensionalityDims

SpecDims == InitDims /\ [][NextDims]_vars

-----------------------------------------------------------------------------
(* C27 *)

\* C27: for every n_dims argument, given or omitted, and either value of the
\* coordinates flag, reduce_dimensionality passes to the repair the number of
\* dimensions it requested from the reducer, which is the number of columns
\* of the embedding the repair receives, and the repair raises nothing.
C27_RepairGetsRequestedDims ==
    (pc = "done" /\ args.fn = "reduce_dimensionality") =>
        /\ ret.repair_dims = ret.reducer_dims
        /\ ret.repair_dims = ret.columns
        /\ ret.raised = "none"

-----------------------------------------------------------------------------
(* Specification: the deck lookups of the main map and of its submaps
   (load_cdecks, _create_submaps) and the repair run on each aggregate *)

\* load_cdecks (data_loading_service.py lines 194-217) on the deck table
\* `decks`, whose index is the row number: cdecks[i] is the deck of row i
load_cdecks(decks) ==
    Dict([i \in 1..Len(decks) |-> i], [i \in 1..Len(decks) |-> decks[i]])

\* the deckID column of submap_decks (lines 170-179): the deckIDs of the rows
\* of the parent table whose category equals value, in table order; the
\* deckID of a deck of the main map is its row
submap_deck_ids(decks, value) ==
    SelectSeq([i \in 1..Len(decks) |-> i],
              LAMBDA i : decks[i].commander = value)

\* submap_cdecks (lines 182-185): one entry per deckID of submap_decks, keyed
\* by that deckID
submap_cdecks(parent, ids) ==
    Dict(ids, [k \in {ids[r] : r \in 1..Len(ids)} |-> parent.v.at[k]])

\* the deck table of the main map: every bounded table of decks
InitKeys ==
    /\ pc = "ready"
    /\ \E n \in 1..MaxParentDecks :
          args \in [fn : {"load"},
                    decks : [1..n -> [commander : Commanders,
                                      cards : SUBSET (1..MaxAnchorCards)]]]
    /\ ret = NoCall
    /\ AggIdle
    /\ rng = Rng(FALSE, 0)

\* _load_commander_map (map_generation_service.py lines 176-225): the main map
LoadCommanderMap ==
    /\ pc = "ready"
    /\ decklist_matrix' = Some(Len(args.decks))
    /\ commander_decks' = Some([i \in 1..Len(args.decks) |-> i])
    /\ cdecks' = load_cdecks(args.decks)
    /\ pc' = "main"
    /\ UNCHANGED <<args, ret, coordinates, cluster_embedding, cluster_labels,
                   rng, reference, jobs>>

\* one turn of the loop of _create_submaps: the submap of the decks whose
\* commander is value
CreateSubmapOf(value) ==
    /\ pc = "main"
    /\ LET ids == submap_deck_ids(args.decks, value)
       IN /\ ids # << >>
          /\ decklist_matrix' = Some(Len(ids))
          /\ commander_decks' = Some(ids)
          /\ cdecks' = submap_cdecks(cdecks, ids)
    /\ pc' = "submap"
    /\ UNCHANGED <<args, ret, coordinates, cluster_embedding, cluster_labels,
                   rng, reference, jobs>>

\* reduce_dimensionality on the aggregate: the repair, with the aggregate's
\* own lookup, of an embedding some rows of which are disconnected
RepairAggregate ==
    /\ pc \in {"main", "submap"}
    /\ \E nan \in RowSubsets(decklist_matrix.v) :
          ret' \in repair_anchors(decklist_matrix.v, nan, cdecks)
    /\ pc' = "repaired"
    /\ UNCHANGED <<args, aggVars, rng>>

NextKeys ==
    \/ LoadCommanderMap
    \/ \E value \in Commanders : CreateSubmapOf(value)
    \/ RepairAggregate

SpecKeys == InitKeys /\ [][NextKeys]_vars

-----------------------------------------------------------------------------
(* C28 *)

\* C28: in every aggregate the pipeline builds, the main map and each submap,
\* the keys of the deck lookup are exactly the rows of its matrix, the entity
\* under key r is the deck of row r of its table, and the repair of its
\* embedding anchors every disconnected row to a row of that embedding.
C28_LookupKeyedByRow ==
    decklist_matrix # None =>
        /\ {cdecks.v.order[j] : j \in 1..Len(cdecks.v.order)}
              = 1..decklist_matrix.v
        /\ \A r \in 1..decklist_matrix.v :
              r \in DOMAIN cdecks.v.at
                 => cdecks.v.at[r] = args.decks[commander_decks.v[r]]
        /\ pc = "repaired" =>
              /\ ret.raised = "none"
              /\ \A d \in DOMAIN ret.value.anchor :
                    ret.value.anchor[d] \in 1..decklist_matrix.v

-----------------------------------------------------------------------------
(* Specification: the refinement loop of _process_submap
   (submap_generation_service.py lines 254-281) *)

\* ClusteringService.get_parameters: <<n_neighbors, min_cluster_size>>
get_parameters(n_decks) ==
    IF n_decks < 300 THEN <<4, 4>>
    ELSE IF n_decks < 500 THEN <<6, 6>>
    ELSE IF n_decks < 1000 THEN <<8, 6>>
    ELSE IF n_decks < 2000 THEN <<10, 6>>
    ELSE IF n_decks < 5000 THEN <<12, 6>>
    ELSE IF n_decks < 20000 THEN <<15, 8>>
    ELSE <<25, 12>>

\* the submap sizes: the sizes on either side of each threshold of
\* get_parameters and of the break of line 278
SubmapSizes ==
    {1, 200, 201, 299, 300, 499, 500, 999, 1000, 1999, 2000, 4999, 5000,
     19999, 20000}

\* the size under which the loop stops after its first iteration (line 278)
SingleIterationLimit == 200

\* The measures taken of a clustering at lines 273-275: entropy 0 stands for
\* an entropy below 1 and 1 for an entropy of 1 or more, max_cluster_perc is
\* in tenths.  The entropy is below 1 whenever a cluster holds more than 0.8
\* of the decks, and otherwise below 1 or not.
ClusterMeasures ==
    { [entropy |-> 0, max_cluster_perc |-> 10],
      [entropy |-> 0, max_cluster_perc |-> 9],
      [entropy |-> 0, max_cluster_perc |-> 5],
      [entropy |-> 1, max_cluster_perc |-> 5] }

\* the condition of the while statement (line 262)
loop_condition_to_zero(entropy, max_cluster_perc, min_cluster_size) ==
    entropy < 1 /\ max_cluster_perc > 8 /\ min_cluster_size > 0
loop_condition(entropy, max_cluster_perc, min_cluster_size) ==
    entropy < 1 /\ max_cluster_perc > 8 /\ min_cluster_size > 1

\* the locals of _process_submap before line 255, for every submap size
InitLoop ==
    /\ pc = "get_parameters"
    /\ args \in [fn : {"_process_submap"}, n_decks : SubmapSizes]
    /\ ret = NoCall
    /\ AggIdle
    /\ rng = Rng(TRUE, 0)

\* lines 255-260
GetParameters ==
    /\ pc = "get_parameters"
    /\ args' = [fn |-> "_process_submap", n_decks |-> args.n_decks,
                n_neighbors |-> get_parameters(args.n_decks)[1],
                min_cluster_size |-> get_parameters(args.n_decks)[2],
                initial |-> get_parameters(args.n_decks)[2],
                entropy |-> 0, max_cluster_perc |-> 10, num_iter |-> 0]
    /\ pc' = "while"
    /\ UNCHANGED <<ret, aggVars, rng>>

\* one iteration (lines 263-281): the three calls on the submap, which
\* return or raise, the measures, the break and the decrement; ret records
\* the min_cluster_size the iteration passes to cluster_decks
Iterate ==
    /\ pc = "while"
    /\ loop_condition(args.entropy, args.max_cluster_perc, args.min_cluster_size)
    /\ \/ /\ ret' = [raised |-> "ValueError", fn |-> "cluster_decks",
                     min_cluster_size |-> args.min_cluster_size]
          /\ pc' = "raised"
          /\ UNCHANGED args
       \/ \E m \in ClusterMeasures :
            /\ ret' = [raised |-> "none", fn |-> "cluster_decks",
                       min_cluster_size |-> args.min_cluster_size]
            /\ IF args.n_decks <= SingleIterationLimit
               THEN /\ args' = [args EXCEPT !.entropy = m.entropy,
                                   !.max_cluster_perc = m.max_cluster_perc,
                                   !.num_iter = @ + 1]
                    /\ pc' = "analysis"
               ELSE /\ args' = [args EXCEPT !.entropy = m.entropy,
                                   !.max_cluster_perc = m.max_cluster_perc,
                                   !.num_iter = @ + 1,
                                   !.min_cluster_size = @ - 1]
                    /\ pc' = "while"
    /\ UNCHANGED <<aggVars, rng>>

\* the condition of line 262 is false: on to the analysis of line 284
ExitLoop ==
    /\ pc = "while"
    /\ ~loop_condition(args.entropy, args.max_cluster_perc, args.min_cluster_size)
    /\ pc' = "analysis"
    /\ UNCHANGED <<args, ret, aggVars, rng>>

NextLoop == GetParameters \/ Iterate \/ ExitLoop

\* the interpreter always takes the next step of the function
SpecLoop == InitLoop /\ [][NextLoop]_vars /\ WF_vars(NextLoop)

-----------------------------------------------------------------------------
(* C29 *)

\* the iteration counts the loop allows once the analysis is reached
IterationsInRange ==
    pc = "analysis" =>
        /\ args.num_iter >= 1
        /\ args.n_decks <= SingleIterationLimit => args.num_iter = 1
        /\ args.num_iter <= args.initial - 1

\* C29: the refinement loop terminates for every submap size, by reaching the
\* analysis or by an exception of a call; when the analysis is reached at
\* least one iteration has run, exactly one when the submap has 200 or fewer
\* decks, and at most the initial min_cluster_size minus 1; every clustering
\* call uses min_cluster_size >= 2.
C29_LoopTerminates ==
    /\ [](IterationsInRange
          /\ (ret # NoCall => ret.min_cluster_size >= 2))
    /\ <>(pc \in {"analysis", "raised"})

\* a submap of more than 200 decks whose every clustering kept one dominant
\* cluster: the analysis is reached after initial - 1 iterations, the last
\* clustering using min_cluster_size 2
C29_Witness ==
    /\ pc = "analysis"
    /\ args.n_decks > SingleIterationLimit
    /\ args.num_iter = args.initial - 1
    /\ args.num_iter >= 5
    /\ args.min_cluster_size = 1
    /\ ret.raised = "none" /\ ret.min_cluster_size = 2

-----------------------------------------------------------------------------
(* Specification: the lifecycle of scrape jobs under ScrapeService
   (src/backend/api/firecrawl/domain) *)

\* JobStatus
JobStatuses == {"pending", "processing", "completed", "failed", "cancelled"}

\* the default of options.get('max_retries', 3) (scrape_job.py line 73)
DefaultMaxRetries == 3

\* the job ids the callers use: those of the jobs the repository can hold and
\* one more, which is never found
JobIds == 1..(MaxJobs + 1)

\* ScrapeJob: the fields the lifecycle reads and writes; max_retries is the
\* value of options.get('max_retries', 3)
ScrapeJob(max_retries) ==
    [status |-> "pending", retry_count |-> 0, max_retries |-> max_retries,
     result |-> FALSE, error |-> FALSE]

\* ScrapeJob.is_terminal_state
is_terminal_state(job) == job.status \in {"completed", "failed", "cancelled"}

\* ScrapeJob.start / complete / cancel / fail
start(job) == [job EXCEPT !.status = "processing"]
complete(job) == [job EXCEPT !.status = "completed", !.result = TRUE]
cancel(job) == [job EXCEPT !.status = "cancelled"]
fail(job) == [job EXCEPT !.status = "failed", !.error = TRUE]

\* ScrapeJob.retry: whether the retry is allowed, and the job after the call
retry_allowed(job) == job.retry_count < job.max_retries
retry(job) ==
    IF retry_allowed(job)
    THEN [job EXCEPT !.retry_count = @ + 1, !.status = "pending", !.error = FALSE]
    ELSE job

\* repository.get_by_id: the job, or None
get_by_id(job_id) == IF job_id \in DOMAIN jobs.v THEN Some(jobs.v[job_id]) ELSE None

\* `job` is stored by repository.update and returned
Updated(job_id, job) ==
    /\ jobs' = Some([jobs.v EXCEPT ![job_id] = job])
    /\ ret' = Ok(job)

\* the ValueError of a job that is not found or not in the state required
Rejected ==
    /\ ret' = Raise("ValueError")
    /\ UNCHANGED jobs

\* an empty repository
InitScrape ==
    /\ pc = "ready"
    /\ args = [fn |-> "none"]
    /\ ret = NoCall
    /\ decklist_matrix = None
    /\ commander_decks = None
    /\ cdecks = None
    /\ coordinates = None
    /\ cluster_embedding = None
    /\ cluster_labels = None
    /\ reference = None
    /\ jobs = Some(<< >>)
    /\ rng = Rng(FALSE, 0)

ScrapeFrame ==
    UNCHANGED <<pc, decklist_matrix, commander_decks, cdecks, coordinates,
                cluster_embedding, cluster_labels, reference, rng>>

\* create_scrape_job (lines 26-64); the ids are given in order
CreateScrapeJob(max_retries) ==
    /\ Len(jobs.v) < MaxJobs
    /\ args' = [fn |-> "create_scrape_job", job_id |-> Len(jobs.v) + 1]
    /\ jobs' = Some(Append(jobs.v, ScrapeJob(max_retries)))
    /\ ret' = Ok(ScrapeJob(max_retries))
    /\ ScrapeFrame

\* start_job (lines 78-99)
StartJob(job_id) ==
    /\ args' = [fn |-> "start_job", job_id |-> job_id]
    /\ LET job == get_by_id(job_id)
       IN IF job = None THEN Rejected
          ELSE IF job.v.status # "pending" THEN Rejected
          ELSE Updated(job_id, start(job.v))
    /\ ScrapeFrame

\* complete_job (lines 101-120)
CompleteJob(job_id) ==
    /\ args' = [fn |-> "complete_job", job_id |-> job_id]
    /\ LET job == get_by_id(job_id)
       IN IF job = None THEN Rejected
          ELSE Updated(job_id, complete(job.v))
    /\ ScrapeFrame

\* fail_job (lines 122-145)
FailJob(job_id) ==
    /\ args' = [fn |-> "fail_job", job_id |-> job_id]
    /\ LET job == get_by_id(job_id)
       IN IF job = None THEN Rejected
          ELSE IF retry_allowed(job.v) THEN Updated(job_id, retry(job.v))
          ELSE Updated(job_id, fail(retry(job.v)))
    /\ ScrapeFrame

\* cancel_job (lines 147-168)
CancelJob(job_id) ==
    /\ args' = [fn |-> "cancel_job", job_id |-> job_id]
    /\ LET job == get_by_id(job_id)
       IN IF job = None THEN Rejected
          ELSE IF is_terminal_state(job.v) THEN Rejected
          ELSE Updated(job_id, cancel(job.v))
    /\ ScrapeFrame

NextScrape ==
    \/ \E max_retries \in (0..MaxRetries) \cup {DefaultMaxRetries} :
          CreateScrapeJob(max_retries)
    \/ \E job_id \in JobIds : StartJob(job_id)
    \/ \E job_id \in JobIds : CompleteJob(job_id)
    \/ \E job_id \in JobIds : FailJob(job_id)
    \/ \E job_id \in JobIds : CancelJob(job_id)

SpecScrape == InitScrape /\ [][NextScrape]_vars

-----------------------------------------------------------------------------
(* C30 *)

\* C30: once the status of a scrape job is COMPLETED, FAILED or CANCELLED, no
\* call of start_job, complete_job, fail_job or cancel_job changes it: the
\* call is rejected or leaves the status as it was.
C30_TerminalStatusKept ==
    [][\A job_id \in DOMAIN jobs.v :
          is_terminal_state(jobs.v[job_id])
             => jobs'.v[job_id].status = jobs.v[job_id].status]_vars

====
